---- MODULE Spec2Model ----
(***************************************************************************)
(* Case-check lifecycle of one meeting in the call summariser:             *)
(*   - summariser/initiate_case_check/app.py  (initiate handler)           *)
(*   - summariser/case_check/app.py           (case-check workflow step)   *)
(*   - summariser/extract_metrics/app.py      (extract-metrics step)       *)
(* The shared state is the lifecycle record of the meeting (DynamoDB),     *)
(* the object store (S3, one object per time partition) and the            *)
(* assessment-results table.  Every handler is cut into steps at its       *)
(* accesses to that shared state.                                          *)
(***************************************************************************)
EXTENDS Integers, Sequences, FiniteSets, TLC

\* ---------------------------------------------------------------- bounds
NumReq == 2          \* initiate requests / workflow executions
MaxMonth == 1        \* time partitions 0..MaxMonth (year*12+month, shifted)
MaxMetricsMonth == 3 \* time partitions of the call metrics, 0..MaxMetricsMonth
MaxResults == 2      \* length of the classifier's result list
MaxLines == 5        \* lines of a caption file
MaxParts == 4        \* parts of a timestamp string
MaxCues == 2         \* cue blocks of a caption file with speaker names
MaxTurnLines == 4    \* lines of a role-labelled transcript

Reqs == 1..NumReq
Months == 0..MaxMonth
MetricsMonths == 0..MaxMetricsMonth

\* ------------------------------------------------------- deployment config
\* os.environ AWS_SAM_LOCAL == "true" only under the local emulator
AWS_SAM_LOCAL == FALSE
\* constants.ATHENA_PARTITIONED: keys of the form .../meeting_id=<id>/...
ATHENA_PARTITIONED == TRUE

\* optional values are sequences of length 0 or 1
None == <<>>
Some(x) == <<x>>
\* case-check keys are time partitions; two values stand outside them
NoKey == -1          \* no caseCheckKey attribute
FoundInS3 == -2      \* the literal "found_in_s3"
Absent == "ABSENT"   \* attribute_not_exists(caseCheckStatus)

VARIABLES
  now,      \* current time partition (datetime.now: year, month)
  rec,      \* lifecycle record of the meeting: caseCheckStatus, caseCheckKey, casePassRate
  s3,       \* case-check objects of the meeting, by time partition
  tbl,      \* assessment-results items of the meeting, by assessment_id
  ms3,      \* call_metrics.json objects of the meeting, by time partition
  ipc,      \* initiate request: position in lambda_handler
  ireq,     \* initiate request: meetingId and forceReprocess of its body
  iresp,    \* initiate request: response
  ihist,    \* initiate request: what it has done so far
  epc,      \* case-check invocation: position in lambda_handler
  eevent,   \* case-check invocation: its event
  edata,    \* case-check invocation: assembled payload
  eidx,     \* case-check invocation: index in the per-check loop
  eres,     \* case-check invocation: returned value
  ehist,    \* case-check invocation: what it has done so far
  xpc,      \* extract-metrics invocation: position in lambda_handler
  xevent,   \* extract-metrics invocation: its event
  xdata,    \* extract-metrics invocation: the metrics it computed
  xres,     \* extract-metrics invocation: returned value
  xhist,    \* extract-metrics invocation: what it has done so far
  fin,      \* a call of a function of the handlers: its name and arguments
  fout,     \* the value the call returned, or the exception it raised
  zoom,     \* ZoomClient: access_token and the three caches
  zlog      \* ZoomClient: the last call, what it returned and what it requested

ivars == <<ipc, ireq, iresp, ihist>>
evars == <<epc, eevent, edata, eidx, eres, ehist>>
store == <<rec, s3, tbl, ms3>>
xvars == <<xpc, xevent, xdata, xres, xhist>>
fvars == <<fin, fout>>
zvars == <<zoom, zlog>>
vars == <<now, rec, s3, tbl, ms3, ipc, ireq, iresp, ihist, epc, eevent, edata, eidx, eres, ehist,
          xpc, xevent, xdata, xres, xhist, fin, fout, zoom, zlog>>

\* no function call is recorded
NoCall == [fn |-> "none"]

\* ------------------------------------------------------------- initiate
NoResp == [code |-> 0, kind |-> "none", key |-> NoKey, passRate |-> 0, hasData |-> FALSE]
NoIHist == [touched |-> FALSE, condFailed |-> FALSE, queued |-> FALSE, started |-> FALSE]

Bodies ==
  [isDict : BOOLEAN, meetingId : {"", "m1"}, redactedTranscriptKey : {"", "other/k", "summaries/k"},
   transcript : {"", "t"}, zoomMeetingId : {"", "12", "1x"}, forceReprocess : BOOLEAN]

\* InputValidator.validate_required_fields(body, ["meetingId"]) and
\* validate_meeting_id: a body without meetingId is rejected (utils, outside the
\* handler's file)
ValidateRequiredFields(b) == b.meetingId # ""

\* initiate_case_check lambda_handler, input validation
ValidBody(b) ==
  /\ b.isDict
  /\ ValidateRequiredFields(b)
  /\ IF b.redactedTranscriptKey # ""
       THEN b.redactedTranscriptKey = "summaries/k"
       ELSE /\ ~(b.transcript = "" /\ b.zoomMeetingId = "")
            /\ ~(b.zoomMeetingId = "1x")

\* a payload of the meeting is persisted (in some partition)
Persisted == \E m \in Months : s3[m] # None

\* _check_s3_case_check_completion: an object whose key ends with
\* /<meeting_id>/case_check.v<schema>.json
CheckS3Completion ==
  /\ ~ATHENA_PARTITIONED
  /\ \E m \in Months : s3[m] # None

\* _get_existing_case_check; ddbOk = FALSE is a failing get_item
GetExistingCaseCheck(ddbOk) ==
  IF ddbOk
    THEN IF rec.status = "COMPLETED" /\ rec.key # NoKey
           THEN Some([status |-> "COMPLETED", key |-> rec.key, passRate |-> rec.passRate])
           ELSE None
    ELSE IF AWS_SAM_LOCAL THEN None
         ELSE IF CheckS3Completion
                THEN Some([status |-> "COMPLETED", key |-> FoundInS3, passRate |-> 0])
                ELSE None

\* the 200 "Case check already completed" response
Completed200(existing, hasData) ==
  [code |-> 200, kind |-> "already_completed", key |-> existing.key,
   passRate |-> existing.passRate, hasData |-> hasData]

\* a raised error; lambda_error_handler chooses the status code (-1 here)
ErrorResp(kind) == [code |-> -1, kind |-> kind, key |-> NoKey, passRate |-> 0, hasData |-> FALSE]

\* lambda_handler up to and including the fast-path read of the lifecycle record
Receive(p, b, ddbOk) ==
  /\ ipc[p] = "idle"
  /\ epc[p] = "none"
  /\ ireq' = [ireq EXCEPT ![p] = [meetingId |-> b.meetingId, forceReprocess |-> b.forceReprocess]]
  /\ IF ~ValidBody(b)
       THEN /\ ipc' = [ipc EXCEPT ![p] = "done"]
            /\ iresp' = [iresp EXCEPT ![p] = ErrorResp("validation")]
            /\ UNCHANGED ihist
       ELSE /\ ihist' = [ihist EXCEPT ![p].touched = ~b.forceReprocess]
            /\ IF b.forceReprocess
                 THEN /\ ipc' = [ipc EXCEPT ![p] = "mark"]
                      /\ UNCHANGED iresp
                 ELSE LET existing == GetExistingCaseCheck(ddbOk) IN
                      IF existing = None
                        THEN /\ ipc' = [ipc EXCEPT ![p] = "mark"]
                             /\ UNCHANGED iresp
                        ELSE IF existing[1].key = FoundInS3
                          THEN /\ ipc' = [ipc EXCEPT ![p] = "done"]
                               /\ iresp' = [iresp EXCEPT ![p] = Completed200(existing[1], FALSE)]
                          ELSE /\ ipc' = [ipc EXCEPT ![p] = "fetch"]
                               /\ iresp' = [iresp EXCEPT ![p] = Completed200(existing[1], FALSE)]
  /\ UNCHANGED <<zvars, fvars, now, store, evars, xvars>>

\* s3.get_object of the full payload, then return _response(200, ...)
FetchFull(p, s3Ok) ==
  /\ ipc[p] = "fetch"
  /\ ipc' = [ipc EXCEPT ![p] = "done"]
  /\ iresp' = [iresp EXCEPT ![p].hasData =
                 s3Ok /\ iresp[p].key \in Months /\ s3[iresp[p].key] # None]
  /\ ihist' = [ihist EXCEPT ![p].touched = TRUE]
  /\ UNCHANGED <<zvars, fvars, now, store, ireq, evars, xvars>>

\* (mutant) the update_item without its condition
ConditionExpressionMut == TRUE

\* ConditionExpression of the non-forced update_item
ConditionExpression == rec.status = Absent \/ rec.status # "COMPLETED"

\* _mark_queued: one update_item; ddbOk = FALSE is any other ClientError
MarkQueued(p, ddbOk) ==
  /\ ipc[p] = "mark"
  /\ IF AWS_SAM_LOCAL
       THEN /\ ipc' = [ipc EXCEPT ![p] = "start"]
            /\ UNCHANGED <<rec, iresp, ihist>>
       ELSE /\ IF ~ddbOk
                 THEN /\ ipc' = [ipc EXCEPT ![p] = "done"]
                      /\ iresp' = [iresp EXCEPT ![p] = ErrorResp("dynamodb")]
                      /\ ihist' = [ihist EXCEPT ![p].touched = TRUE]
                      /\ UNCHANGED rec
                 ELSE IF ireq[p].forceReprocess \/ ConditionExpression
                   THEN /\ rec' = [rec EXCEPT !.status = "QUEUED"]
                        /\ ipc' = [ipc EXCEPT ![p] = "start"]
                        /\ ihist' = [ihist EXCEPT ![p].touched = TRUE, ![p].queued = TRUE]
                        /\ UNCHANGED iresp
                   ELSE /\ ipc' = [ipc EXCEPT ![p] = "reread"]
                        /\ ihist' = [ihist EXCEPT ![p].touched = TRUE, ![p].condFailed = TRUE]
                        /\ UNCHANGED <<rec, iresp>>
  /\ UNCHANGED <<zvars, fvars, now, s3, tbl, ms3, ireq, evars, xvars>>

\* _mark_queued after ConditionalCheckFailedException: re-read of the record
ReRead(p, ddbOk) ==
  /\ ipc[p] = "reread"
  /\ LET existing == GetExistingCaseCheck(ddbOk) IN
     IF existing = None
       THEN /\ ipc' = [ipc EXCEPT ![p] = "done"]
            /\ iresp' = [iresp EXCEPT ![p] = ErrorResp("already_completed_no_data")]
       ELSE /\ ipc' = [ipc EXCEPT ![p] = "fetch"]
            /\ iresp' = [iresp EXCEPT ![p] = Completed200(existing[1], FALSE)]
  /\ UNCHANGED <<zvars, fvars, now, store, ireq, ihist, evars, xvars>>

\* (mutant) a failing start_execution puts the status back
StartExecutionMut(p, sfnOk) ==
  /\ ipc[p] = "start"
  /\ ipc' = [ipc EXCEPT ![p] = "done"]
  /\ IF AWS_SAM_LOCAL
       THEN /\ iresp' = [iresp EXCEPT ![p] = [NoResp EXCEPT !.code = 202, !.kind = "started"]]
            /\ UNCHANGED <<rec, ihist, epc, eevent, ehist>>
       ELSE IF sfnOk
         THEN /\ iresp' = [iresp EXCEPT ![p] = [NoResp EXCEPT !.code = 202, !.kind = "started"]]
              /\ ihist' = [ihist EXCEPT ![p].started = TRUE]
              /\ epc' = [epc EXCEPT ![p] = "check"]
              /\ eevent' = [eevent EXCEPT ![p] =
                    [meetingId |-> "m1", redactedTranscriptKey |-> "summaries/k",
                     forceReprocess |-> ireq[p].forceReprocess, callMetrics |-> TRUE]]
              /\ ehist' = [ehist EXCEPT ![p].prior = Persisted]
              /\ UNCHANGED rec
         ELSE /\ iresp' = [iresp EXCEPT ![p] = ErrorResp("stepfunctions")]
              /\ rec' = [rec EXCEPT !.status = Absent]
              /\ UNCHANGED <<ihist, epc, eevent, ehist>>
  /\ UNCHANGED <<zvars, fvars, now, s3, tbl, ms3, ireq, edata, eidx, eres, xvars>>

\* _start_step_function, then return _response(202, ...); the execution it
\* starts runs the case-check step with the request's meetingId and flag.
\* The execution name carries the timestamp in seconds: requests of different
\* seconds start different executions, which is the case modelled
StartExecution(p, sfnOk) ==
  /\ ipc[p] = "start"
  /\ ipc' = [ipc EXCEPT ![p] = "done"]
  /\ IF AWS_SAM_LOCAL
       THEN /\ iresp' = [iresp EXCEPT ![p] = [NoResp EXCEPT !.code = 202, !.kind = "started"]]
            /\ UNCHANGED <<ihist, epc, eevent, ehist>>
       ELSE IF sfnOk
         THEN /\ iresp' = [iresp EXCEPT ![p] = [NoResp EXCEPT !.code = 202, !.kind = "started"]]
              /\ ihist' = [ihist EXCEPT ![p].started = TRUE]
              /\ epc' = [epc EXCEPT ![p] = "check"]
              /\ eevent' = [eevent EXCEPT ![p] =
                    [meetingId |-> "m1", redactedTranscriptKey |-> "summaries/k",
                     forceReprocess |-> ireq[p].forceReprocess, callMetrics |-> TRUE]]
              /\ ehist' = [ehist EXCEPT ![p].prior = Persisted]
         ELSE /\ iresp' = [iresp EXCEPT ![p] = ErrorResp("stepfunctions")]
              /\ UNCHANGED <<ihist, epc, eevent, ehist>>
  /\ UNCHANGED <<zvars, fvars, now, store, ireq, edata, eidx, eres, xvars>>

\* ------------------------------------------------------------ checklist
\* STARTER_SESSION_CHECKS: id, severity and theme of the 23 checks
Chk(id, severity, theme) == [id |-> id, severity |-> severity, theme |-> theme]

STARTER_SESSION_CHECKS == <<
  Chk("call_recording_confirmed", "high", "businessRisk"),
  Chk("regulated_advice_given", "high", "businessRisk"),
  Chk("vulnerability_identified", "high", "businessRisk"),
  Chk("dob_confirmed", "medium", "businessRisk"),
  Chk("client_name_confirmed", "medium", "businessRisk"),
  Chk("marital_status_confirmed", "medium", "businessRisk"),
  Chk("citizenship_confirmed", "medium", "businessRisk"),
  Chk("dependents_confirmed", "medium", "businessRisk"),
  Chk("pension_details_confirmed", "medium", "businessRisk"),
  Chk("income_expenditure_confirmed", "medium", "businessRisk"),
  Chk("assets_liabilities_confirmed", "medium", "businessRisk"),
  Chk("emergency_fund_confirmed", "medium", "businessRisk"),
  Chk("will_confirmed", "low", "businessRisk"),
  Chk("pension_withdrawal_if_over_50", "medium", "businessRisk"),
  Chk("high_interest_debt_addressed", "high", "businessRisk"),
  Chk("fees_charges_explained", "high", "businessRisk"),
  Chk("way_forward_agreed", "medium", "businessRisk"),
  Chk("money_calculators_introduced", "medium", "businessRisk"),
  Chk("coach_introduction_signposting", "medium", "customerExperience"),
  Chk("client_goals_established", "high", "customerExperience"),
  Chk("client_motivations_established", "medium", "customerExperience"),
  Chk("asked_client_move_forward", "high", "customerExperience"),
  Chk("client_questions_opportunity", "medium", "customerExperience") >>

CheckIndex(id) == {i \in DOMAIN STARTER_SESSION_CHECKS : STARTER_SESSION_CHECKS[i].id = id}

\* severity_by_id.get(id): no severity for an id outside the checklist
SeverityById(id) ==
  IF CheckIndex(id) = {} THEN "none"
  ELSE STARTER_SESSION_CHECKS[CHOOSE i \in CheckIndex(id) : TRUE].severity

\* (mutant) an id outside the checklist has no theme of its own and falls to
\* the other theme
ThemeByIdMut(id) ==
  IF CheckIndex(id) = {} THEN "customerExperience"
  ELSE STARTER_SESSION_CHECKS[CHOOSE i \in CheckIndex(id) : TRUE].theme

\* theme_by_id.get(id, 'businessRisk')
ThemeById(id) ==
  IF CheckIndex(id) = {} THEN "businessRisk"
  ELSE STARTER_SESSION_CHECKS[CHOOSE i \in CheckIndex(id) : TRUE].theme

\* ----------------------------------------------------------- aggregation
\* Status literal of CaseCheckResult
Status == {"Competent", "CompetentWithDevelopment", "Fail", "NotApplicable", "Inconclusive"}

\* ids of the results with status Fail, in order (failed_ids.append)
RECURSIVE FailedIdsOf(_)
FailedIdsOf(results) ==
  IF results = <<>> THEN <<>>
  ELSE LET r == Head(results)
           rest == FailedIdsOf(Tail(results))
       IN IF r.status = "Fail" THEN <<r.id>> \o rest ELSE rest

\* those of the failed ids whose checklist severity is high
RECURSIVE HighSeverityFlagsOf(_)
HighSeverityFlagsOf(results) ==
  IF results = <<>> THEN <<>>
  ELSE LET r == Head(results)
           rest == HighSeverityFlagsOf(Tail(results))
       IN IF r.status = "Fail" /\ SeverityById(r.id) = "high" THEN <<r.id>> \o rest ELSE rest

\* round(num/den, 0) as Python rounds: to nearest, ties to even
RoundHalfEven(num, den) ==
  LET q == num \div den
      r == num % den
  IN IF 2 * r < den THEN q
     ELSE IF 2 * r > den THEN q + 1
     ELSE IF q % 2 = 0 THEN q ELSE q + 1

\* round(passed_count / total_checks * 100, 1), in tenths of a percent
PassRateOf(results) ==
  LET total_checks == Len(results)
      passed_count == total_checks - Len(FailedIdsOf(results))
  IN IF total_checks > 0 THEN RoundHalfEven(1000 * passed_count, total_checks) ELSE 0

\* (mutant) every failed id is flagged as high severity
ComputeOverallMut(results) ==
  [pass_rate |-> PassRateOf(results),
   failed_ids |-> FailedIdsOf(results),
   high_severity_flags |-> FailedIdsOf(results),
   has_high_severity_failures |-> Len(FailedIdsOf(results)) > 0]

\* the 'overall' calculated when the model did not return one
ComputeOverall(results) ==
  [pass_rate |-> PassRateOf(results),
   failed_ids |-> FailedIdsOf(results),
   high_severity_flags |-> HighSeverityFlagsOf(results),
   has_high_severity_failures |-> Len(HighSeverityFlagsOf(results)) > 0]

\* fallback overall when 'results' is not a list
EmptyOverall ==
  [pass_rate |-> 0, failed_ids |-> <<>>, high_severity_flags |-> <<>>,
   has_high_severity_failures |-> FALSE]

\* the loop over data["results"] that recomputes has_high_severity_failures
HasHighSeverityFailures(results) ==
  \E i \in DOMAIN results : results[i].status = "Fail" /\ SeverityById(results[i].id) = "high"

\* (mutant) every status but NotApplicable raises the indicator
HasVulnerabilityMut(results) ==
  \E i \in DOMAIN results :
     results[i].id = "vulnerability_identified" /\ results[i].status # "NotApplicable"

\* has_vulnerability of the same loop
HasVulnerability(results) ==
  \E i \in DOMAIN results :
     results[i].id = "vulnerability_identified" /\ results[i].status \in {"Competent", "Fail"}

\* (mutant) a truncated response is accepted
TruncatedMut(resp) == FALSE

\* stop_reason == "max_tokens"
Truncated(resp) == resp.stopReason = "max_tokens"

\* CaseCheckPayload.model_validate: results is a list of CaseCheckResult
ModelValidate(resp) ==
  /\ resp.resultsKind \in {"list", "str_list"}
  /\ \A i \in DOMAIN resp.results : resp.results[i].status \in Status

\* overall as it stands before validation: the model's, or the calculated one
OverallOf(resp) ==
  IF resp.overall # None THEN resp.overall[1]
  ELSE IF resp.resultsKind \in {"list", "str_list"} THEN ComputeOverall(resp.results)
  ELSE EmptyOverall

NoPayload == [results |-> <<>>, overall |-> EmptyOverall, call_analytics |-> "none"]

\* (mutant) the classifier's has_high_severity_failures is kept
ProcessResponseMut(resp, call_analytics) ==
  IF ~resp.toolUse THEN [err |-> "no_tool_use", data |-> NoPayload]
  ELSE IF Truncated(resp) THEN [err |-> "truncated", data |-> NoPayload]
  ELSE IF resp.resultsKind = "str_bad" THEN [err |-> "parse", data |-> NoPayload]
  ELSE IF ~ModelValidate(resp) THEN [err |-> "validation", data |-> NoPayload]
  ELSE [err |-> "",
        data |-> [results |-> resp.results, overall |-> OverallOf(resp),
                  call_analytics |-> call_analytics]]

\* lambda_handler of case_check from the classifier's response to the assembled
\* payload: err is the error raised, "" if none
ProcessResponse(resp, call_analytics) ==
  IF ~resp.toolUse THEN [err |-> "no_tool_use", data |-> NoPayload]
  ELSE IF Truncated(resp) THEN [err |-> "truncated", data |-> NoPayload]
  ELSE IF resp.resultsKind = "str_bad" THEN [err |-> "parse", data |-> NoPayload]
  ELSE IF ~ModelValidate(resp) THEN [err |-> "validation", data |-> NoPayload]
  ELSE [err |-> "",
        data |-> [results |-> resp.results,
                  overall |-> [OverallOf(resp) EXCEPT
                     !.has_high_severity_failures = HasHighSeverityFailures(resp.results)],
                  call_analytics |-> call_analytics]]

\* ------------------------------------------------------------ case check
NoEvent == [meetingId |-> "", redactedTranscriptKey |-> "", forceReprocess |-> FALSE,
            callMetrics |-> FALSE]
NoRes == [fields |-> {}, caseData |-> NoPayload, caseKey |-> NoKey, passRate |-> 0,
          hasVulnerability |-> FALSE]
NoEHist == [prior |-> FALSE, getErr |-> FALSE, read |-> FALSE, called |-> FALSE,
            truncated |-> FALSE, wroteS3 |-> FALSE, wroteTbl |-> FALSE, tblFailed |-> FALSE,
            err |-> "", resp |-> None]

Events ==
  [meetingId : {"", "m1"}, redactedTranscriptKey : {"", "summaries/k"},
   forceReprocess : BOOLEAN, callMetrics : BOOLEAN]

\* (mutant) the check of meetingId is missing
EventValidMut(ev) == ev.redactedTranscriptKey # ""

\* lambda_handler of case_check: both identifiers are required
EventValid(ev) == ev.redactedTranscriptKey # "" /\ ev.meetingId # ""

\* the handler raises: the invocation ends with error err
Raise(e, err) ==
  /\ epc' = [epc EXCEPT ![e] = "failed"]
  /\ ehist' = [ehist EXCEPT ![e].err = err]

\* a case-check invocation that does not come from the initiate handler
\* (a workflow of another entry point, or a retried step)
Invoke(e, ev) ==
  /\ epc[e] = "none"
  /\ ipc[e] = "idle"
  /\ epc' = [epc EXCEPT ![e] = "check"]
  /\ eevent' = [eevent EXCEPT ![e] = ev]
  /\ ehist' = [ehist EXCEPT ![e].prior = Persisted]
  /\ UNCHANGED <<zvars, fvars, now, store, ivars, edata, eidx, eres, xvars>>

\* lambda_handler: validation of the event and the idempotency check
\* (s3.get_object at the key of the current partition); s3Ok = FALSE is an
\* exception other than NoSuchKey
CheckExisting(e, s3Ok) ==
  /\ epc[e] = "check"
  /\ LET ev == eevent[e] IN
     IF ~EventValid(ev)
       THEN /\ Raise(e, "validation")
            /\ UNCHANGED eres
       ELSE IF ev.forceReprocess
         THEN /\ epc' = [epc EXCEPT ![e] = "classify"]
              /\ UNCHANGED <<eres, ehist>>
         ELSE /\ ehist' = [ehist EXCEPT ![e].read = TRUE, ![e].getErr = ~s3Ok]
              /\ IF s3Ok /\ s3[now] # None
                   THEN /\ epc' = [epc EXCEPT ![e] = "returned"]
                        /\ eres' = [eres EXCEPT ![e] =
                              [fields |-> {"caseData", "caseKey", "passRate"},
                               caseData |-> s3[now][1], caseKey |-> now,
                               passRate |-> s3[now][1].overall.pass_rate,
                               hasVulnerability |-> FALSE]]
                   ELSE /\ epc' = [epc EXCEPT ![e] = "classify"]
                        /\ UNCHANGED eres
  /\ UNCHANGED <<zvars, fvars, now, store, ivars, eevent, edata, eidx, xvars>>

\* lambda_handler from the transcript fetch to the assembled payload: the
\* transcript and the prompt ARN are fetched, the classifier is invoked and its
\* response resp is processed
Classify(e, transcriptOk, promptArn, invokeOk, resp) ==
  /\ epc[e] = "classify"
  /\ IF ~transcriptOk
       THEN /\ epc' = [epc EXCEPT ![e] = "failed"]
            /\ ehist' = [ehist EXCEPT ![e].err = "transcript", ![e].read = TRUE]
            /\ UNCHANGED edata
       ELSE IF ~promptArn
         THEN /\ epc' = [epc EXCEPT ![e] = "failed"]
              /\ ehist' = [ehist EXCEPT ![e].err = "no_prompt_arn", ![e].read = TRUE]
              /\ UNCHANGED edata
         ELSE IF ~invokeOk
           THEN /\ epc' = [epc EXCEPT ![e] = "failed"]
                /\ ehist' = [ehist EXCEPT ![e].err = "bedrock", ![e].read = TRUE,
                                          ![e].called = TRUE]
                /\ UNCHANGED edata
           ELSE LET out == ProcessResponse(resp,
                             IF eevent[e].callMetrics THEN "event" ELSE "local") IN
                /\ ehist' = [ehist EXCEPT ![e].err = out.err, ![e].read = TRUE,
                                          ![e].called = TRUE,
                                          ![e].truncated = (resp.stopReason = "max_tokens"),
                                          ![e].resp = Some(resp)]
                /\ epc' = [epc EXCEPT ![e] = IF out.err = "" THEN "save" ELSE "failed"]
                /\ edata' = [edata EXCEPT ![e] = out.data]
  /\ UNCHANGED <<zvars, fvars, now, store, ivars, eevent, eidx, eres, xvars>>

\* (mutant) the table step is entered without the put_object
SaveCaseJsonMut(e, s3Ok) ==
  /\ epc[e] = "save"
  /\ IF s3Ok
       THEN /\ epc' = [epc EXCEPT ![e] = "table"]
            /\ eidx' = [eidx EXCEPT ![e] = 1]
            /\ eres' = [eres EXCEPT ![e].caseKey = now]
            /\ UNCHANGED <<s3, ehist>>
       ELSE /\ Raise(e, "s3_put")
            /\ UNCHANGED <<s3, eidx, eres>>
  /\ UNCHANGED <<zvars, fvars, now, rec, tbl, ms3, ivars, eevent, edata, xvars>>

\* _save_case_json: put_object at the key of the partition current at the save
SaveCaseJson(e, s3Ok) ==
  /\ epc[e] = "save"
  /\ IF s3Ok
       THEN /\ s3' = [s3 EXCEPT ![now] = Some(edata[e])]
            /\ epc' = [epc EXCEPT ![e] = "table"]
            /\ eidx' = [eidx EXCEPT ![e] = 1]
            /\ eres' = [eres EXCEPT ![e].caseKey = now]
            /\ ehist' = [ehist EXCEPT ![e].wroteS3 = TRUE]
       ELSE /\ Raise(e, "s3_put")
            /\ UNCHANGED <<s3, eidx, eres>>
  /\ UNCHANGED <<zvars, fvars, now, rec, tbl, ms3, ivars, eevent, edata, xvars>>

\* the value returned after a fresh computation
FreshResult(e) ==
  [fields |-> {"caseData", "caseKey", "passRate", "hasVulnerability", "callAnalytics"},
   caseData |-> edata[e], caseKey |-> eres[e].caseKey,
   passRate |-> edata[e].overall.pass_rate,
   hasVulnerability |-> HasVulnerability(edata[e].results)]

\* the results that the per-check loop does not skip (if not check_id: continue)
RECURSIVE WithId(_)
WithId(results) ==
  IF results = <<>> THEN <<>>
  ELSE IF Head(results).id = "" THEN WithId(Tail(results))
  ELSE <<Head(results)>> \o WithId(Tail(results))

\* ids of the failed checks of one theme (the code keeps their labels, which
\* are a function of the id)
RECURSIVE FailedOfTheme(_, _)
FailedOfTheme(results, businessRisk) ==
  IF results = <<>> THEN <<>>
  ELSE LET r == Head(results)
           rest == FailedOfTheme(Tail(results), businessRisk)
       IN IF r.status = "Fail" /\ ((ThemeById(r.id) = "businessRisk") = businessRisk)
            THEN <<r.id>> \o rest ELSE rest

\* the item put for one check
CheckItem(r) ==
  [check_id |-> r.id, result |-> r.status, theme |-> ThemeById(r.id),
   has_detailed_assessment |-> (r.id = "vulnerability_identified" /\ r.status = "Fail")]

\* the overall item (assessment_id case-check#overall)
OverallItem(data) ==
  LET all_failed_ids == FailedIdsOf(WithId(data.results)) IN
  [triage_outcome |-> IF Len(all_failed_ids) = 0 THEN "Pass" ELSE "Fail",
   pass_rate |-> data.overall.pass_rate,
   failed_question_count |-> Len(all_failed_ids),
   failed_ids |-> all_failed_ids,
   business_risk_failures |-> FailedOfTheme(WithId(data.results), TRUE),
   customer_exp_failures |-> FailedOfTheme(WithId(data.results), FALSE),
   has_high_severity_failures |-> data.overall.has_high_severity_failures,
   high_severity_flags |-> data.overall.high_severity_flags]

\* (mutant) the error of a put propagates to the caller
TableErrorMut(e) ==
  /\ epc' = [epc EXCEPT ![e] = "failed"]
  /\ eres' = eres
  /\ ehist' = [ehist EXCEPT ![e].tblFailed = TRUE, ![e].err = "table"]

\* what the except clause of _save_checks_to_assessment_table does with an
\* error of a put: it is logged and the handler goes on to return
TableError(e) ==
  /\ epc' = [epc EXCEPT ![e] = "returned"]
  /\ eres' = [eres EXCEPT ![e] = FreshResult(e)]
  /\ ehist' = [ehist EXCEPT ![e].tblFailed = TRUE]

\* _save_checks_to_assessment_table, one round of the loop over the results
PutCheck(e, putOk) ==
  /\ epc[e] = "table"
  /\ eidx[e] <= Len(edata[e].results)
  /\ LET r == edata[e].results[eidx[e]] IN
     IF r.id = ""
       THEN /\ eidx' = [eidx EXCEPT ![e] = @ + 1]
            /\ UNCHANGED <<tbl, epc, eres, ehist>>
       ELSE IF putOk
         THEN /\ tbl' = [tbl EXCEPT ![r.id] = Some(CheckItem(r))]
              /\ eidx' = [eidx EXCEPT ![e] = @ + 1]
              /\ ehist' = [ehist EXCEPT ![e].wroteTbl = TRUE]
              /\ UNCHANGED <<epc, eres>>
         ELSE /\ TableError(e)
              /\ UNCHANGED <<tbl, eidx>>
  /\ UNCHANGED <<zvars, fvars, now, rec, s3, ms3, ivars, eevent, edata, xvars>>

\* _save_checks_to_assessment_table, the overall item, and the return
PutOverall(e, putOk) ==
  /\ epc[e] = "table"
  /\ eidx[e] > Len(edata[e].results)
  /\ IF putOk
       THEN /\ tbl' = [tbl EXCEPT !["#overall"] = Some(OverallItem(edata[e]))]
            /\ epc' = [epc EXCEPT ![e] = "returned"]
            /\ eres' = [eres EXCEPT ![e] = FreshResult(e)]
            /\ ehist' = [ehist EXCEPT ![e].wroteTbl = TRUE]
       ELSE /\ TableError(e)
            /\ UNCHANGED tbl
  /\ UNCHANGED <<zvars, fvars, now, rec, s3, ms3, ivars, eevent, edata, eidx, xvars>>

\* the workflow step that follows a case check started by the initiate handler:
\* it records COMPLETED with the key and the pass rate the case check returned
Complete(e) ==
  /\ epc[e] = "returned"
  /\ ihist[e].started
  /\ epc' = [epc EXCEPT ![e] = "completed"]
  /\ rec' = [status |-> "COMPLETED", key |-> eres[e].caseKey, passRate |-> eres[e].passRate]
  /\ UNCHANGED <<zvars, fvars, now, s3, tbl, ms3, ivars, eevent, edata, eidx, eres, ehist, xvars>>

\* ------------------------------------------------------- extract metrics
NoXEvent == [meetingId |-> "", transcriptKey |-> "", coachName |-> "", forceReprocess |-> FALSE]
NoMetrics == [mode |-> "none", coach |-> ""]
NoXRes == [callMetrics |-> NoMetrics, metricsKey |-> NoKey]
NoXHist == [read |-> FALSE, getErr |-> FALSE, fetched |-> FALSE, wrote |-> FALSE, err |-> ""]
Cached == -3         \* the literal "cached" returned as metricsKey

XEvents ==
  [meetingId : {"", "m1"}, transcriptKey : {"", "summaries/t"}, coachName : {"", "Jane"},
   forceReprocess : BOOLEAN]

\* lambda_handler of extract_metrics: both identifiers are required
XEventValid(ev) == ev.transcriptKey # "" /\ ev.meetingId # ""

\* the partitions load_metrics_from_s3 probes, in order: month_offset 0, -1, -2
\* (partitions before the first one of the model hold no object)
ProbedPartitions == <<now, now - 1, now - 2>>

\* load_metrics_from_s3: the metrics of the first probed partition whose get
\* succeeds; getOk[i] = FALSE is a failing get_object of the i-th probe
RECURSIVE FirstFound(_, _, _)
FirstFound(parts, getOk, i) ==
  IF i > Len(parts) THEN None
  ELSE IF parts[i] \in MetricsMonths /\ getOk[i] /\ ms3[parts[i]] # None THEN ms3[parts[i]]
  ELSE FirstFound(parts, getOk, i + 1)

LoadMetricsFromS3(getOk) == FirstFound(ProbedPartitions, getOk, 1)

\* an invocation of the extract-metrics step
XInvoke(x, ev) ==
  /\ xpc[x] = "none"
  /\ xpc' = [xpc EXCEPT ![x] = "load"]
  /\ xevent' = [xevent EXCEPT ![x] = ev]
  /\ UNCHANGED <<zvars, fvars, now, store, ivars, evars, xdata, xres, xhist>>

\* lambda_handler: validation of the event and the cache check
XLoad(x, getOk) ==
  /\ xpc[x] = "load"
  /\ LET ev == xevent[x] IN
     IF ~XEventValid(ev)
       THEN /\ xpc' = [xpc EXCEPT ![x] = "failed"]
            /\ xhist' = [xhist EXCEPT ![x].err = "validation"]
            /\ UNCHANGED xres
       ELSE IF ev.forceReprocess
         THEN /\ xpc' = [xpc EXCEPT ![x] = "extract"]
              /\ UNCHANGED <<xres, xhist>>
         ELSE LET existing_metrics == LoadMetricsFromS3(getOk) IN
              /\ xhist' = [xhist EXCEPT ![x].read = TRUE,
                                        ![x].getErr = \E i \in DOMAIN getOk : ~getOk[i]]
              /\ IF existing_metrics # None
                   THEN /\ xpc' = [xpc EXCEPT ![x] = "returned"]
                        /\ xres' = [xres EXCEPT ![x] =
                              [callMetrics |-> existing_metrics[1], metricsKey |-> Cached]]
                   ELSE /\ xpc' = [xpc EXCEPT ![x] = "extract"]
                        /\ UNCHANGED xres
  /\ UNCHANGED <<zvars, fvars, now, store, ivars, evars, xevent, xdata>>

\* extract_metrics: Mode A with captions and a coach name, else Mode B
ExtractMode(hasVtt, coachName) == IF hasVtt /\ coachName # "" THEN "A" ELSE "B"

\* lambda_handler: the transcript and the captions are fetched and the metrics
\* are computed
XExtract(x, transcriptOk, hasVtt) ==
  /\ xpc[x] = "extract"
  /\ xhist' = [xhist EXCEPT ![x].read = TRUE, ![x].fetched = TRUE,
                            ![x].err = IF transcriptOk THEN "" ELSE "transcript"]
  /\ IF transcriptOk
       THEN /\ xpc' = [xpc EXCEPT ![x] = "save"]
            /\ xdata' = [xdata EXCEPT ![x] =
                  [mode |-> ExtractMode(hasVtt, xevent[x].coachName),
                   coach |-> xevent[x].coachName]]
       ELSE /\ xpc' = [xpc EXCEPT ![x] = "failed"]
            /\ UNCHANGED xdata
  /\ UNCHANGED <<zvars, fvars, now, store, ivars, evars, xevent, xres>>

\* save_metrics_to_s3 and the return
XSave(x, s3Ok) ==
  /\ xpc[x] = "save"
  /\ IF s3Ok
       THEN /\ ms3' = [ms3 EXCEPT ![now] = Some(xdata[x])]
            /\ xpc' = [xpc EXCEPT ![x] = "returned"]
            /\ xres' = [xres EXCEPT ![x] = [callMetrics |-> xdata[x], metricsKey |-> now]]
            /\ xhist' = [xhist EXCEPT ![x].wrote = TRUE]
       ELSE /\ xpc' = [xpc EXCEPT ![x] = "failed"]
            /\ xhist' = [xhist EXCEPT ![x].err = "s3_put"]
            /\ UNCHANGED <<ms3, xres>>
  /\ UNCHANGED <<zvars, fvars, now, rec, s3, tbl, ivars, evars, xevent, xdata>>

\* the calendar month changes
Tick ==
  /\ now < MaxMonth
  /\ now' = now + 1
  /\ UNCHANGED <<zvars, fvars, store, ivars, evars, xvars>>

\* the calendar month changes, over the partitions of the call metrics
XTick ==
  /\ now < MaxMetricsMonth
  /\ now' = now + 1
  /\ UNCHANGED <<zvars, fvars, store, ivars, evars, xvars>>

\* ------------------------------------------------- classifier responses
Resp(toolUse, stopReason, resultsKind, results, overall) ==
  [toolUse |-> toolUse, stopReason |-> stopReason, resultsKind |-> resultsKind,
   results |-> results, overall |-> overall]

Res(id, status) == [id |-> id, status |-> status]

\* the ids a result can carry: checklist ids of each severity and theme, an id
\* outside the checklist and the empty id
ResultIds ==
  {"call_recording_confirmed", "dob_confirmed", "vulnerability_identified",
   "client_goals_established", "not_in_checklist", ""}

ItemIds == (ResultIds \ {""}) \cup {"#overall"}

\* responses of the lifecycle specification: one with a failed check and no
\* overall, one without failure and with an overall, and a truncated one
LifecycleResponses ==
  { Resp(TRUE, "tool_use", "list", <<Res("dob_confirmed", "Fail")>>, None),
    Resp(TRUE, "tool_use", "list", <<Res("call_recording_confirmed", "Competent")>>,
         Some([pass_rate |-> 1000, failed_ids |-> <<>>, high_severity_flags |-> <<>>,
               has_high_severity_failures |-> FALSE])),
    Resp(TRUE, "max_tokens", "list", <<Res("dob_confirmed", "Fail")>>, None) }

\* results of the aggregation specification
AggResults ==
  [id : {"call_recording_confirmed", "dob_confirmed", "not_in_checklist"},
   status : {"Fail", "Competent"}]
  \cup [id : {"vulnerability_identified"}, status : Status]
  \cup {Res("", "Fail"), Res("client_goals_established", "Fail"), Res("dob_confirmed", "Bogus")}

AggResultLists == UNION {[1..n -> AggResults] : n \in 0..MaxResults}

\* an overall as the classifier may supply it: any pass rate with any failed
\* ids, with no high-severity flag or with one
SuppliedOveralls ==
  {[pass_rate |-> p, failed_ids |-> ids, high_severity_flags |-> f[1],
    has_high_severity_failures |-> f[2]] :
     p \in {0, 1000}, ids \in {<<>>, <<"dob_confirmed">>},
     f \in {<<<<>>, FALSE>>, <<<<"call_recording_confirmed">>, TRUE>>}}

AggResponses ==
  {Resp(TRUE, "tool_use", "list", rs, o) :
     rs \in AggResultLists, o \in {None} \cup {Some(x) : x \in SuppliedOveralls}}
  \cup {Resp(TRUE, "tool_use", "str_list", rs, None) : rs \in AggResultLists}
  \cup {Resp(t, s, k, <<Res("dob_confirmed", "Fail")>>, None) :
     t \in BOOLEAN, s \in {"tool_use", "max_tokens"}, k \in {"list", "str_bad", "other"}}

\* ------------------------------------------------------- evidence spans
\* Strings are sequences of characters; " " stands for any whitespace.
\* A value of the classifier's JSON, as far as int() tells them apart: an
\* integer, a float (in tenths), a string holding an integer literal, another
\* string, or null
Raw(kind, v) == [kind |-> kind, v |-> v]

\* int(x): [ok, v]; ok = FALSE is ValueError or TypeError. A float is
\* truncated towards zero
IntOf(x) ==
  CASE x.kind = "int" -> [ok |-> TRUE, v |-> x.v]
    [] x.kind = "numstr" -> [ok |-> TRUE, v |-> x.v]
    [] x.kind = "float" -> [ok |-> TRUE, v |-> IF x.v >= 0 THEN x.v \div 10 ELSE -((-x.v) \div 10)]
    [] OTHER -> [ok |-> FALSE, v |-> 0]

\* an entry of evidence_spans: a list of values, or something that is no list
Entry(isList, elems) == [isList |-> isList, elems |-> elems]

\* the test of the clean-up: isinstance(span, (list, tuple)) and len(span) == 2
\* and both int() succeed
Kept(span) ==
  /\ span.isList
  /\ Len(span.elems) = 2
  /\ IntOf(span.elems[1]).ok
  /\ IntOf(span.elems[2]).ok

\* valid_spans: [int(span[0]), int(span[1])] of the entries that pass
ValidSpans(evidence_spans) ==
  LET kept == SelectSeq(evidence_spans, Kept)
  IN [i \in 1..Len(kept) |-> <<IntOf(kept[i].elems[1]).v, IntOf(kept[i].elems[2]).v>>]

\* str.strip()
RECURSIVE LStrip(_)
LStrip(q) == IF q # <<>> /\ Head(q) = " " THEN LStrip(Tail(q)) ELSE q

RECURSIVE RStrip(_)
RStrip(q) == IF q # <<>> /\ q[Len(q)] = " " THEN RStrip(SubSeq(q, 1, Len(q) - 1)) ELSE q

Strip(q) == RStrip(LStrip(q))

\* str.find(needle): offset of the first occurrence, -1 if there is none
Find(text, needle) ==
  LET hits == {p \in 0..(Len(text) - Len(needle)) :
                  SubSeq(text, p + 1, p + Len(needle)) = needle}
  IN IF hits = {} THEN -1 ELSE CHOOSE p \in hits : \A h \in hits : p <= h

\* clean_quote[:50]
ShortQuoteLen == 50
ShortQuote(clean_quote) ==
  SubSeq(clean_quote, 1, IF Len(clean_quote) < ShortQuoteLen THEN Len(clean_quote) ELSE ShortQuoteLen)

\* (mutant) the span found by the short quote has the length of the short quote
SearchQuoteMut(full_transcript, clean_quote) ==
  LET pos == Find(full_transcript, clean_quote) IN
  IF pos # -1
    THEN [spans |-> <<<<pos, pos + Len(clean_quote)>>>>, finds |-> <<clean_quote>>]
    ELSE LET short_quote == ShortQuote(clean_quote)
             pos2 == Find(full_transcript, short_quote)
         IN [spans |-> IF pos2 # -1 THEN <<<<pos2, pos2 + Len(short_quote)>>>> ELSE <<>>,
             finds |-> <<clean_quote, short_quote>>]

\* the search for a non-empty clean_quote: the spans it sets and the needles
\* it passes to full_transcript.find, in order
SearchQuote(full_transcript, clean_quote) ==
  LET pos == Find(full_transcript, clean_quote) IN
  IF pos # -1
    THEN [spans |-> <<<<pos, pos + Len(clean_quote)>>>>, finds |-> <<clean_quote>>]
    ELSE LET short_quote == ShortQuote(clean_quote)
             pos2 == Find(full_transcript, short_quote)
         IN [spans |-> IF pos2 # -1 THEN <<<<pos2, pos2 + Len(clean_quote)>>>> ELSE <<>>,
             finds |-> <<clean_quote, short_quote>>]

\* the clean-up of one result_item: evidence_spans of the item afterwards and
\* the needles searched. evidence_quote is None for null
ResolveSpans(result_item, full_transcript) ==
  LET evidence_spans == IF result_item.evidence_spans # <<>>
                          THEN ValidSpans(result_item.evidence_spans) ELSE <<>>
      has_quote == result_item.evidence_quote # None /\ result_item.evidence_quote[1] # <<>>
  IN IF has_quote /\ evidence_spans = <<>> /\ Strip(result_item.evidence_quote[1]) # <<>>
       THEN SearchQuote(full_transcript, Strip(result_item.evidence_quote[1]))
       ELSE [spans |-> evidence_spans, finds |-> <<>>]

\* (mutant) a confidence above 1 is left as it is
ClampMut(confidence) == IF confidence < 0 THEN 0 ELSE confidence

\* max(0.0, min(1.0, float(confidence))), in tenths
Clamp(confidence) == IF confidence < 0 THEN 0 ELSE IF confidence > 10 THEN 10 ELSE confidence

\* one result as the payload holds it: spans cleaned up or searched,
\* evidence_quote or "", confidence clamped; finds is what was searched for it
RepairResult(result_item, full_transcript) ==
  LET resolved == ResolveSpans(result_item, full_transcript) IN
  [id |-> result_item.id,
   status |-> result_item.status,
   confidence |-> Clamp(result_item.confidence),
   evidence_quote |-> IF result_item.evidence_quote = None THEN <<>>
                      ELSE result_item.evidence_quote[1],
   evidence_spans |-> resolved.spans,
   finds |-> resolved.finds]

\* data["results"] for the classifier's results
RepairResults(results, full_transcript) ==
  [i \in 1..Len(results) |-> RepairResult(results[i], full_transcript)]

\* s repeated n times
RECURSIVE Rep(_, _)
Rep(seq, n) == IF n = 0 THEN <<>> ELSE seq \o Rep(seq, n - 1)

\* transcripts: "abab...ab" (60 characters) and "bab a"
Transcripts == {Rep(<<"a", "b">>, 30), <<"b", "a", "b", " ", "a">>}

\* quotes: null, "", "  ", "ba", " ba ", "bb" (absent), a quote of 53
\* characters and one of 61 whose first 50 occur in the long transcript, the
\* long transcript itself
Quotes ==
  {None, Some(<<>>), Some(<<" ", " ">>), Some(<<"b", "a">>), Some(<<" ", "b", "a", " ">>),
   Some(<<"b", "b">>), Some(Rep(<<"b", "a">>, 25) \o <<"a", "a", "b">>),
   Some(Rep(<<"b", "a">>, 25) \o Rep(<<"a">>, 11)),
   Some(Rep(<<"a", "b">>, 30))}

\* values of evidence_spans
SpanLists ==
  { <<>>,
    <<Entry(TRUE, <<Raw("int", 1), Raw("int", 3)>>)>>,
    <<Entry(TRUE, <<Raw("int", 5), Raw("int", 2)>>)>>,
    <<Entry(TRUE, <<Raw("numstr", 1), Raw("float", 37)>>)>>,
    <<Entry(TRUE, <<Raw("float", -17), Raw("float", -12)>>)>>,
    <<Entry(TRUE, <<Raw("str", 0), Raw("int", 3)>>)>>,
    <<Entry(TRUE, <<Raw("int", 1), Raw("null", 0)>>)>>,
    <<Entry(TRUE, <<Raw("int", 1), Raw("int", 2), Raw("int", 3)>>)>>,
    <<Entry(FALSE, <<>>)>>,
    <<Entry(TRUE, <<Raw("int", 4), Raw("int", 9)>>), Entry(TRUE, <<Raw("str", 0), Raw("int", 1)>>),
      Entry(TRUE, <<Raw("int", 1)>>), Entry(TRUE, <<Raw("int", 0), Raw("int", 0)>>)>>,
    <<Entry(TRUE, <<Raw("int", 1), Raw("int", 3)>>), Entry(TRUE, <<Raw("int", 5), Raw("int", 2)>>)>> }

\* confidences, in tenths
Confidences == {-5, 0, 5, 10, 15}

\* one result with any quote, spans and confidence
ResultItems ==
  [id : {"dob_confirmed"}, status : {"Fail", "Inconclusive"}, confidence : Confidences,
   evidence_quote : Quotes, evidence_spans : SpanLists]

\* results for lists: a few quotes and spans
ListItems ==
  [id : {"dob_confirmed", "will_confirmed"}, status : {"Fail", "Competent"},
   confidence : {-5, 15},
   evidence_quote : {Some(<<"b", "a">>)},
   evidence_spans : {<<>>, <<Entry(TRUE, <<Raw("int", 1), Raw("int", 3)>>)>>}]

\* the inputs of the repair: one result of any shape, or a list of results
RepairInputs ==
  {[fn |-> "repair", results |-> <<r>>, full_transcript |-> t] :
      r \in ResultItems, t \in Transcripts}
  \cup {[fn |-> "repair", results |-> rs, full_transcript |-> Rep(<<"a", "b">>, 30)] :
      rs \in UNION {[1..n -> ListItems] : n \in 0..MaxResults}}

\* the classifier's results arrive
ChooseResults ==
  /\ fin = NoCall
  /\ \E in \in RepairInputs : fin' = in
  /\ fout' = NoCall
  /\ UNCHANGED <<zvars, now, store, ivars, evars, xvars>>

\* lambda_handler of case_check, from the span clean-up to the clamp
Repair ==
  /\ fin.fn = "repair"
  /\ fout = NoCall
  /\ fout' = [fn |-> "repair", results |-> RepairResults(fin.results, fin.full_transcript)]
  /\ UNCHANGED <<zvars, fin, now, store, ivars, evars, xvars>>

\* ------------------------------------------------------ caption parser
\* A timestamp string is the sequence of its parts, ts.split(':').  A part is
\*   [kind |-> "int", v, w]        w digits of value v
\*   [kind |-> "dec", ms, w, sep]  w digits, the separator sep ("." or ","),
\*                                 then digits; ms is its value in milliseconds
\*   [kind |-> "text"]             something that is not a number
\*   [kind |-> "empty"]            nothing
IntPart(v, w) == [kind |-> "int", v |-> v, w |-> w]

DecPart(ms, w, sep) == [kind |-> "dec", ms |-> ms, w |-> w, sep |-> sep]

TextPart == [kind |-> "text"]

EmptyPart == [kind |-> "empty"]

\* int(part): raises ValueError unless the part is a string of digits
PyInt(part) == [raised |-> part.kind # "int", ms |-> IF part.kind = "int" THEN part.v * 1000 ELSE 0]

\* float(part) after ts.replace(',', '.'): digits, or digits with a fraction
PyFloat(part) ==
  [raised |-> part.kind \notin {"int", "dec"},
   ms |-> IF part.kind = "int" THEN part.v * 1000
          ELSE IF part.kind = "dec" THEN part.ms ELSE 0]

\* parse_timestamp(ts): the seconds returned, in milliseconds, or the
\* ValueError of int() / float() propagated
parse_timestamp(ts) ==
  IF Len(ts) = 3
    THEN LET h == PyInt(ts[1])
             m == PyInt(ts[2])
             s == PyFloat(ts[3])
         IN IF h.raised \/ m.raised \/ s.raised
              THEN [raised |-> TRUE, ms |-> 0]
              ELSE [raised |-> FALSE, ms |-> h.ms * 3600 + m.ms * 60 + s.ms]
  ELSE IF Len(ts) = 2
    THEN LET m == PyInt(ts[1])
             s == PyFloat(ts[2])
         IN IF m.raised \/ s.raised
              THEN [raised |-> TRUE, ms |-> 0]
              ELSE [raised |-> FALSE, ms |-> m.ms * 60 + s.ms]
  ELSE [raised |-> FALSE, ms |-> 0]

\* one endpoint of timestamp_pattern: \d{1,2}:\d{2}:\d{2}[.,]\d+
MatchesEndpoint(ts) ==
  /\ Len(ts) = 3
  /\ ts[1].kind = "int" /\ ts[1].w \in {1, 2}
  /\ ts[2].kind = "int" /\ ts[2].w = 2
  /\ ts[3].kind = "dec" /\ ts[3].w = 2

\* A line of the caption file (lines = vtt_content.split('\n') after the line
\* endings are normalised) is
\*   [kind |-> "cue", start, end]   TIME1 --> TIME2, two timestamp strings
\*   [kind |-> "text", chars]       any other line, as its characters
CueLine(start, end) == [kind |-> "cue", start |-> start, end |-> end]

TextLine(chars) == [kind |-> "text", chars |-> chars]

\* timestamp_pattern.match(line)
MatchesTimestamp(line) ==
  line.kind = "cue" /\ MatchesEndpoint(line.start) /\ MatchesEndpoint(line.end)

\* the characters of line.strip(); those of a cue line stand as one symbol
Stripped(line) == IF line.kind = "cue" THEN <<"-->">> ELSE Strip(line.chars)

Digits == {"0", "1", "2", "3", "4", "5", "6", "7", "8", "9"}

\* str.isdigit()
IsDigit(chars) == chars # <<>> /\ \A k \in DOMAIN chars : chars[k] \in Digits

\* ' '.join(text_lines)
RECURSIVE JoinLines(_)
JoinLines(text_lines) ==
  IF text_lines = <<>> THEN <<>>
  ELSE IF Len(text_lines) = 1 THEN text_lines[1]
  ELSE text_lines[1] \o <<" ">> \o JoinLines(Tail(text_lines))

\* the inner loop: the index at which the collection of text lines stops
RECURSIVE TextEnd(_, _)
TextEnd(lines, i) ==
  IF i > Len(lines) THEN i
  ELSE IF Stripped(lines[i]) = <<>> \/ MatchesTimestamp(lines[i]) \/ IsDigit(Stripped(lines[i]))
    THEN i
    ELSE TextEnd(lines, i + 1)

\* the outer loop from line i on: the segments appended
RECURSIVE SegmentsFrom(_, _)
SegmentsFrom(lines, i) ==
  IF i > Len(lines) THEN <<>>
  ELSE IF MatchesTimestamp(lines[i])
    THEN LET start_sec == parse_timestamp(lines[i].start)
             end_sec == parse_timestamp(lines[i].end)
             j == TextEnd(lines, i + 1)
             text_lines == [k \in 1..(j - i - 1) |-> Stripped(lines[i + k])]
         IN (IF text_lines # <<>>
               THEN <<[start_sec |-> start_sec.ms, end_sec |-> end_sec.ms,
                       text |-> JoinLines(text_lines)]>>
               ELSE <<>>) \o SegmentsFrom(lines, j)
    ELSE SegmentsFrom(lines, i + 1)

\* a timestamp of a matched line makes parse_timestamp raise
RaisesIn(lines) ==
  \E i \in DOMAIN lines :
     /\ MatchesTimestamp(lines[i])
     /\ parse_timestamp(lines[i].start).raised \/ parse_timestamp(lines[i].end).raised

\* parse_vtt_segments(vtt_content); vtt_content is None, or Some(lines) with
\* no line at all for the empty string
parse_vtt_segments(vtt_content) ==
  IF vtt_content = None \/ vtt_content[1] = <<>>
    THEN [raised |-> FALSE, segments |-> <<>>]
  ELSE IF RaisesIn(vtt_content[1])
    THEN [raised |-> TRUE, segments |-> <<>>]
  ELSE [raised |-> FALSE, segments |-> SegmentsFrom(vtt_content[1], 1)]

\* the parts timestamp strings are made of
Parts ==
  {IntPart(0, 2), IntPart(1, 2), IntPart(7, 1),
   DecPart(1500, 2, "."), DecPart(2000, 2, ","), TextPart, EmptyPart}

RECURSIVE SeqsUpTo(_, _)
SeqsUpTo(S, n) ==
  IF n = 0 THEN {<<>>}
  ELSE LET shorter == SeqsUpTo(S, n - 1)
       IN shorter \cup {Append(q, x) : q \in {r \in shorter : Len(r) = n - 1}, x \in S}

\* timestamp strings: one to MaxParts parts
Timestamps == SeqsUpTo(Parts, MaxParts) \ {<<>>}

\* HH:MM:SS.mmm and MM:SS.mmm
Hms(h, m, ms, sep) == <<IntPart(h, 2), IntPart(m, 2), DecPart(ms, 2, sep)>>

Ms(m, ms, sep) == <<IntPart(m, 2), DecPart(ms, 2, sep)>>

\* the lines caption files are made of
VttLines ==
  {CueLine(Hms(0, 0, 1000, "."), Hms(0, 0, 2500, ".")),
   CueLine(Hms(0, 1, 3000, ","), Hms(1, 0, 0, ",")),
   CueLine(Hms(0, 0, 2500, "."), Hms(0, 0, 1000, ".")),
   CueLine(Ms(0, 5000, "."), Ms(0, 6500, ".")),
   TextLine(<<" ", "h", "i", " ">>),
   TextLine(<<"o", "k">>),
   TextLine(<<"4", "2">>),
   TextLine(<<" ">>)}

VttContents == {None} \cup {Some(lines) : lines \in SeqsUpTo(VttLines, MaxLines)}

ChooseTimestamp ==
  /\ fin = NoCall
  /\ \E ts \in Timestamps : fin' = [fn |-> "parse_timestamp", ts |-> ts]
  /\ fout' = NoCall
  /\ UNCHANGED <<zvars, now, store, ivars, evars, xvars>>

ParseTimestamp ==
  /\ fin.fn = "parse_timestamp"
  /\ fout = NoCall
  /\ fout' = [fn |-> "parse_timestamp", res |-> parse_timestamp(fin.ts)]
  /\ UNCHANGED <<zvars, fin, now, store, ivars, evars, xvars>>

ChooseVtt ==
  /\ fin = NoCall
  /\ \E vtt_content \in VttContents :
        fin' = [fn |-> "parse_vtt_segments", vtt_content |-> vtt_content]
  /\ fout' = NoCall
  /\ UNCHANGED <<zvars, now, store, ivars, evars, xvars>>

ParseVttSegments ==
  /\ fin.fn = "parse_vtt_segments"
  /\ fout = NoCall
  /\ fout' = [fn |-> "parse_vtt_segments", res |-> parse_vtt_segments(fin.vtt_content)]
  /\ UNCHANGED <<zvars, fin, now, store, ivars, evars, xvars>>

\* ------------------------------------------------------- call duration
\* get_vtt_duration of extract_metrics: end of the last parsed segment, in
\* milliseconds
get_vtt_duration(vtt_content) ==
  IF vtt_content = None \/ vtt_content[1] = <<>> THEN 0
  ELSE LET segments == parse_vtt_segments(vtt_content).segments
       IN IF segments # <<>> THEN segments[Len(segments)].end_sec ELSE 0

\* the line holds '-->' followed by a timestamp that the pattern of
\* re.findall matches: \d{1,2}:\d{2}:\d{2}[.,]\d+
HasEndTimestamp(line) == line.kind = "cue" /\ MatchesEndpoint(line.end)

\* get_vtt_duration of case_check: the last end timestamp found in the
\* content, split at ':' and summed, in milliseconds
case_check_get_vtt_duration(vtt_content) ==
  IF vtt_content = None \/ vtt_content[1] = <<>> THEN 0
  ELSE LET timestamps == SelectSeq(vtt_content[1], HasEndTimestamp)
       IN IF timestamps = <<>> THEN 0
          ELSE LET parts == timestamps[Len(timestamps)].end
               IN IF Len(parts) = 3
                    THEN PyInt(parts[1]).ms * 3600 + PyInt(parts[2]).ms * 60 + PyFloat(parts[3]).ms
                  ELSE IF Len(parts) = 2
                    THEN PyInt(parts[1]).ms * 60 + PyFloat(parts[2]).ms
                  ELSE 0

ChooseDurationInput ==
  /\ fin = NoCall
  /\ \E vtt_content \in VttContents :
        fin' = [fn |-> "get_vtt_duration", vtt_content |-> vtt_content]
  /\ fout' = NoCall
  /\ UNCHANGED <<zvars, now, store, ivars, evars, xvars>>

\* both steps compute the duration of the same caption file
GetVttDuration ==
  /\ fin.fn = "get_vtt_duration"
  /\ fout = NoCall
  /\ fout' = [fn |-> "get_vtt_duration",
              extract_metrics |-> get_vtt_duration(fin.vtt_content),
              case_check |-> case_check_get_vtt_duration(fin.vtt_content)]
  /\ UNCHANGED <<zvars, fin, now, store, ivars, evars, xvars>>

\* --------------------------------------------------- speaker attribution
Whitespace == {" ", "\t"}

\* str.lower() on the letters used
Lower(chars) ==
  LET low == [c \in {"A", "B", "L", "O", "C", "H", "I", "E", "N", "T"} |->
                CASE c = "A" -> "a" [] c = "B" -> "b" [] c = "L" -> "l" [] c = "O" -> "o"
                  [] c = "C" -> "c" [] c = "H" -> "h" [] c = "I" -> "i" [] c = "E" -> "e"
                  [] c = "N" -> "n" [] c = "T" -> "t"]
  IN [k \in DOMAIN chars |-> IF chars[k] \in DOMAIN low THEN low[chars[k]] ELSE chars[k]]

\* len(text.split()): the maximal runs of characters that are not whitespace
WordCount(chars) ==
  Cardinality({k \in DOMAIN chars :
                 /\ chars[k] \notin Whitespace
                 /\ (k = 1 \/ chars[k - 1] \in Whitespace)})

\* a in b, for strings
Contains(b, a) == Find(b, a) # -1

\* speaker_pattern.match(vtt_text), ^([^:]{2,50}):\s*(.*)$ : the position of the
\* first colon if 2 to 50 characters come before it, else 0
SpeakerMatch(vtt_text) ==
  LET colons == {k \in DOMAIN vtt_text : vtt_text[k] = ":"}
      first == IF colons = {} THEN 0 ELSE CHOOSE k \in colons : \A h \in colons : k <= h
  IN IF first >= 3 /\ first <= 51 THEN first ELSE 0

\* (mutant) only a detected name that contains the coach name is the coach
IsCoachMut(coach_name_lower, speaker_name) == Contains(speaker_name, coach_name_lower)

\* coach_name_lower in speaker_name or speaker_name in coach_name_lower
IsCoach(coach_name_lower, speaker_name) ==
  Contains(speaker_name, coach_name_lower) \/ Contains(coach_name_lower, speaker_name)

\* (mutant) the time of a segment without speaker prefix is not counted
AttributeMut(segment, coach_name_lower) ==
  LET segment_duration == segment.end_sec - segment.start_sec
      first == SpeakerMatch(segment.text)
  IN IF first # 0
       THEN LET speaker_name == Lower(Strip(SubSeq(segment.text, 1, first - 1)))
                actual_text == Strip(SubSeq(segment.text, first + 1, Len(segment.text)))
            IN [coach |-> IsCoach(coach_name_lower, speaker_name),
                duration |-> segment_duration,
                words |-> WordCount(actual_text)]
       ELSE [coach |-> FALSE, duration |-> 0, words |-> WordCount(segment.text)]

\* one segment: who it is attributed to, its duration and its word count
Attribute(segment, coach_name_lower) ==
  LET segment_duration == segment.end_sec - segment.start_sec
      first == SpeakerMatch(segment.text)
  IN IF first # 0
       THEN LET speaker_name == Lower(Strip(SubSeq(segment.text, 1, first - 1)))
                actual_text == Strip(SubSeq(segment.text, first + 1, Len(segment.text)))
            IN [coach |-> IsCoach(coach_name_lower, speaker_name),
                duration |-> segment_duration,
                words |-> WordCount(actual_text)]
       ELSE [coach |-> FALSE, duration |-> segment_duration, words |-> WordCount(segment.text)]

RECURSIVE SumOver(_, _, _)
\* the sum of field f over the attributions of the given side
SumOver(attributed, coach, f) ==
  IF attributed = <<>> THEN 0
  ELSE (IF attributed[1].coach = coach THEN attributed[1][f] ELSE 0)
       + SumOver(Tail(attributed), coach, f)

\* parse_vtt_with_speakers(vtt_content, coach_name); durations in milliseconds;
\* coach_name is None, or Some(characters)
parse_vtt_with_speakers(vtt_content, coach_name) ==
  IF vtt_content = None \/ vtt_content[1] = <<>> \/ coach_name = None \/ coach_name[1] = <<>>
    THEN [coach_duration_sec |-> 0, client_duration_sec |-> 0,
          coach_words |-> 0, client_words |-> 0]
    ELSE LET segments == parse_vtt_segments(vtt_content).segments
             coach_name_lower == Strip(Lower(coach_name[1]))
             attributed == [k \in DOMAIN segments |-> Attribute(segments[k], coach_name_lower)]
         IN [coach_duration_sec |-> SumOver(attributed, TRUE, "duration"),
             client_duration_sec |-> SumOver(attributed, FALSE, "duration"),
             coach_words |-> SumOver(attributed, TRUE, "words"),
             client_words |-> SumOver(attributed, FALSE, "words")]

\* texts of cues: with and without a speaker name
SpeakerTexts ==
  {<<"A", "l", ":", " ", "h", "i", " ", "y", "o">>,
   <<"A", "L", " ", "B", ":", "o", "k">>,
   <<"B", "o", ":", " ", "o", "k", " ", "o", "k", " ", "o", "k">>,
   <<"h", "i", " ", "y", "o">>,
   <<"A", ":", " ", "h", "i">>,
   <<" ", " ", ":", " ", "h", "i">>,
   <<"A", "l", ":">>,
   Rep(<<"a">>, 50) \o <<":", " ", "h", "i">>,
   Rep(<<"a">>, 51) \o <<":", " ", "h", "i">>}

SpeakerCues ==
  {CueLine(Hms(0, 0, 1000, "."), Hms(0, 0, 2500, ".")),
   CueLine(Hms(0, 1, 3000, ","), Hms(1, 0, 0, ","))}

\* a cue block: the cue line, its text line, a blank line
CueBlock(cue, chars) == <<cue, TextLine(chars), TextLine(<<>>)>>

RECURSIVE Flatten(_)
Flatten(blocks) == IF blocks = <<>> THEN <<>> ELSE blocks[1] \o Flatten(Tail(blocks))

SpeakerVtts ==
  {None} \cup
  {Some(Flatten(blocks)) :
     blocks \in SeqsUpTo({CueBlock(cue, chars) : cue \in SpeakerCues, chars \in SpeakerTexts},
                         MaxCues)}

CoachNames ==
  {None, Some(<<>>), Some(<<"A", "l">>), Some(<<" ", "a", "l", " ", "b", " ">>),
   Some(<<"B", "O">>), Some(<<"a">>)}

ChooseSpeakerInput ==
  /\ fin = NoCall
  /\ \E vtt_content \in SpeakerVtts, coach_name \in CoachNames :
        fin' = [fn |-> "parse_vtt_with_speakers", vtt_content |-> vtt_content,
                coach_name |-> coach_name]
  /\ fout' = NoCall
  /\ UNCHANGED <<zvars, now, store, ivars, evars, xvars>>

ParseVttWithSpeakers ==
  /\ fin.fn = "parse_vtt_with_speakers"
  /\ fout = NoCall
  /\ fout' = [fn |-> "parse_vtt_with_speakers",
              res |-> parse_vtt_with_speakers(fin.vtt_content, fin.coach_name)]
  /\ UNCHANGED <<zvars, fin, now, store, ivars, evars, xvars>>

\* --------------------------------------------------------------- metrics
\* Durations are in milliseconds; percentages, minutes, words per minute and
\* words per turn are in tenths, as round(x, 1) leaves them.

\* round(num / den, 1) in tenths, num already scaled by 10; a zero
\* denominator raises ZeroDivisionError
PyDiv(num, den) ==
  [raised |-> den = 0, v |-> IF den = 0 THEN 0 ELSE RoundHalfEven(num, den)]

\* a value computed without a division
NoDiv(v) == [raised |-> FALSE, v |-> v]

\* line.strip() begins with prefix
StartsWith(chars, prefix) ==
  Len(chars) >= Len(prefix) /\ SubSeq(chars, 1, Len(prefix)) = prefix

\* re.match(r'^(COACH|CLIENT):\s*(.*)$', line) on the stripped line: the
\* speaker, "" if there is no match
SpeakerTag(line) ==
  IF StartsWith(Strip(line), <<"C", "O", "A", "C", "H", ":">>) THEN "COACH"
  ELSE IF StartsWith(Strip(line), <<"C", "L", "I", "E", "N", "T", ":">>) THEN "CLIENT"
  ELSE ""

\* len(text.split()) of group 2 of the match
TaggedWords(line) ==
  LET stripped == Strip(line)
      n == IF SpeakerTag(line) = "COACH" THEN 6 ELSE 7
  IN WordCount(SubSeq(stripped, n + 1, Len(stripped)))

\* the words of one speaker over the lines of the transcript
RECURSIVE WordsOf(_, _)
WordsOf(lines, speaker) ==
  IF lines = <<>> THEN 0
  ELSE (IF SpeakerTag(lines[1]) = speaker THEN TaggedWords(lines[1]) ELSE 0)
       + WordsOf(Tail(lines), speaker)

\* Mode A of extract_metrics: timing from the caption file
ModeA(vtt_content, coach_name) ==
  LET timing == parse_vtt_with_speakers(vtt_content, coach_name)
      coach_duration_sec == timing.coach_duration_sec
      client_duration_sec == timing.client_duration_sec
      total_speaking_time == coach_duration_sec + client_duration_sec
  IN [coach_speaking_time_min |-> PyDiv(coach_duration_sec, 6000),
      client_speaking_time_min |-> PyDiv(client_duration_sec, 6000),
      coach_speaking_pct |-> IF total_speaking_time > 0
                               THEN PyDiv(coach_duration_sec * 1000, total_speaking_time)
                               ELSE NoDiv(0),
      client_speaking_pct |-> IF total_speaking_time > 0
                                THEN PyDiv(client_duration_sec * 1000, total_speaking_time)
                                ELSE NoDiv(0),
      coach_wpm |-> IF coach_duration_sec > 0
                      THEN PyDiv(timing.coach_words * 600000, coach_duration_sec)
                      ELSE NoDiv(0)]

\* (mutant) the words per minute are guarded by the total words only
ModeBMut(transcript, total_duration_sec) ==
  LET coach_words == WordsOf(transcript, "COACH")
      client_words == WordsOf(transcript, "CLIENT")
      total_words == coach_words + client_words
      coach_speaking_time_min ==
        IF total_words > 0
          THEN PyDiv(coach_words * total_duration_sec, total_words * 6000)
          ELSE NoDiv(0)
  IN [coach_speaking_time_min |-> coach_speaking_time_min,
      client_speaking_time_min |->
        IF total_words > 0
          THEN PyDiv(client_words * total_duration_sec, total_words * 6000)
          ELSE NoDiv(0),
      coach_speaking_pct |-> IF total_words > 0
                               THEN PyDiv(coach_words * 1000, total_words) ELSE NoDiv(0),
      client_speaking_pct |-> IF total_words > 0
                                THEN PyDiv(client_words * 1000, total_words) ELSE NoDiv(0),
      coach_wpm |-> IF total_words > 0
                      THEN PyDiv(coach_words * 100, coach_speaking_time_min.v)
                      ELSE NoDiv(0)]

\* Mode B of extract_metrics: estimate from the word counts of the transcript
ModeB(transcript, total_duration_sec) ==
  LET coach_words == WordsOf(transcript, "COACH")
      client_words == WordsOf(transcript, "CLIENT")
      total_words == coach_words + client_words
      coach_speaking_time_min ==
        IF total_words > 0
          THEN PyDiv(coach_words * total_duration_sec, total_words * 6000)
          ELSE NoDiv(0)
  IN [coach_speaking_time_min |-> coach_speaking_time_min,
      client_speaking_time_min |->
        IF total_words > 0
          THEN PyDiv(client_words * total_duration_sec, total_words * 6000)
          ELSE NoDiv(0),
      coach_speaking_pct |-> IF total_words > 0
                               THEN PyDiv(coach_words * 1000, total_words) ELSE NoDiv(0),
      client_speaking_pct |-> IF total_words > 0
                                THEN PyDiv(client_words * 1000, total_words) ELSE NoDiv(0),
      coach_wpm |-> IF coach_speaking_time_min.v > 0
                      THEN PyDiv(coach_words * 100, coach_speaking_time_min.v)
                      ELSE NoDiv(0)]

\* the values of a record of divisions, or the ZeroDivisionError of one of them
Outcome(divs) ==
  IF \E f \in DOMAIN divs : divs[f].raised
    THEN [raised |-> TRUE]
    ELSE [raised |-> FALSE] @@ [f \in DOMAIN divs |-> divs[f].v]

\* extract_metrics(transcript, vtt_content, coach_name)
extract_metrics(transcript, vtt_content, coach_name) ==
  LET has_vtt == vtt_content # None /\ vtt_content[1] # <<>>
      has_coach == coach_name # None /\ coach_name[1] # <<>>
      vtt_segments == IF has_vtt THEN parse_vtt_segments(vtt_content).segments ELSE <<>>
      total_duration_sec ==
        IF vtt_segments # <<>> THEN vtt_segments[Len(vtt_segments)].end_sec ELSE 0
      mode == IF has_vtt /\ has_coach THEN "A" ELSE "B"
      divs == IF mode = "A" THEN ModeA(vtt_content, coach_name)
              ELSE ModeB(transcript, total_duration_sec)
  IN Outcome(divs @@ [total_duration_min |-> PyDiv(total_duration_sec, 6000)])
     @@ [mode |-> mode]

\* (mutant) the test of last_speaker_type is missing in the CLIENT branch
NewTurnClientMut(tag, speaker, last_speaker_type) ==
  tag = speaker /\ (speaker = "COACH" => last_speaker_type # tag)

\* (mutant) every matched line of the speaker is a turn
NewTurnMut(tag, speaker, last_speaker_type) == tag = speaker

\* if last_speaker_type != speaker: a turn of the speaker begins
NewTurn(tag, speaker, last_speaker_type) == tag = speaker /\ last_speaker_type # tag

\* the turns of one speaker: a turn is counted when a matched line has a
\* speaker other than last_speaker_type
RECURSIVE TurnsOf(_, _, _)
TurnsOf(lines, speaker, last_speaker_type) ==
  IF lines = <<>> THEN 0
  ELSE LET tag == SpeakerTag(lines[1])
       IN IF tag = "" THEN TurnsOf(Tail(lines), speaker, last_speaker_type)
          ELSE (IF NewTurn(tag, speaker, last_speaker_type) THEN 1 ELSE 0)
               + TurnsOf(Tail(lines), speaker, tag)

\* calculate_call_analytics(transcript, vtt_content)
calculate_call_analytics(transcript, vtt_content) ==
  LET coach_words == WordsOf(transcript, "COACH")
      client_words == WordsOf(transcript, "CLIENT")
      coach_turns == TurnsOf(transcript, "COACH", "")
      client_turns == TurnsOf(transcript, "CLIENT", "")
      total_words == coach_words + client_words
      total_duration_sec ==
        IF vtt_content # None /\ vtt_content[1] # <<>>
          THEN case_check_get_vtt_duration(vtt_content) ELSE 0
      has_duration == total_duration_sec > 0
      divs ==
        [total_duration_min |-> IF has_duration THEN PyDiv(total_duration_sec, 6000)
                                ELSE NoDiv(0),
         coach_talk_ratio |-> IF total_words > 0
                                THEN PyDiv(coach_words * 1000, total_words) ELSE NoDiv(0),
         client_talk_ratio |-> IF total_words > 0
                                 THEN PyDiv(client_words * 1000, total_words) ELSE NoDiv(0),
         coach_avg_words_per_turn |-> IF coach_turns > 0
                                        THEN PyDiv(coach_words * 10, coach_turns)
                                        ELSE NoDiv(0),
         client_avg_words_per_turn |-> IF client_turns > 0
                                         THEN PyDiv(client_words * 10, client_turns)
                                         ELSE NoDiv(0),
         total_words_per_min |-> IF has_duration
                                   THEN PyDiv(total_words * 600000, total_duration_sec)
                                   ELSE NoDiv(0),
         coach_words_per_min |-> IF has_duration
                                   THEN PyDiv(coach_words * 600000, total_duration_sec)
                                   ELSE NoDiv(0),
         client_words_per_min |-> IF has_duration
                                    THEN PyDiv(client_words * 600000, total_duration_sec)
                                    ELSE NoDiv(0)]
  IN Outcome(divs)
     @@ [total_words |-> total_words, coach_words |-> coach_words,
         client_words |-> client_words, total_turns |-> coach_turns + client_turns,
         coach_turns |-> coach_turns, client_turns |-> client_turns,
         total_duration_sec |-> total_duration_sec]

\* lines of a transcript after normalise_roles, and lines it should not have
TranscriptLines ==
  {<<"C", "O", "A", "C", "H", ":", " ", "h", "i", " ", "y", "o">>,
   <<"C", "L", "I", "E", "N", "T", ":", " ", "o", "k">>,
   <<"C", "O", "A", "C", "H", ":">>,
   <<" ", "C", "L", "I", "E", "N", "T", ":", "a", " ", "b", " ", "c", " ">>,
   <<"n", "o", "t", "e">>,
   <<>>}

RoleTranscripts == SeqsUpTo(TranscriptLines, MaxTurnLines)

\* caption files for the metrics: cues said by Al and by Bo, one cue that ends
\* before it starts
MetricCues ==
  {CueLine(Hms(0, 0, 1000, "."), Hms(0, 0, 2500, ".")),
   CueLine(Hms(0, 0, 3000, ","), Hms(0, 1, 0, ",")),
   CueLine(Hms(0, 0, 2500, "."), Hms(0, 0, 1000, "."))}

MetricTexts ==
  {<<"A", "l", ":", " ", "h", "i", " ", "y", "o">>,
   <<"B", "o", ":", " ", "o", "k", " ", "o", "k", " ", "o", "k">>,
   <<"A", "l", ":">>}

MetricVtts ==
  {None, Some(<<>>)} \cup
  {Some(Flatten(blocks)) :
     blocks \in SeqsUpTo({CueBlock(cue, chars) : cue \in MetricCues, chars \in MetricTexts},
                         MaxCues)}

OneVtt == Some(CueBlock(CueLine(Hms(0, 1, 3000, ","), Hms(1, 0, 0, ",")),
                        <<"A", "l", ":", " ", "h", "i", " ", "y", "o">>))

\* Mode A on every caption file with one transcript, Mode B on every
\* transcript with and without a duration
MetricInputs ==
  {[transcript |-> <<>>, vtt_content |-> v, coach_name |-> c] :
     v \in MetricVtts, c \in {None, Some(<<>>), Some(<<"A", "l">>)}}
  \cup
  {[transcript |-> t, vtt_content |-> v, coach_name |-> None] :
     t \in RoleTranscripts, v \in {None, OneVtt}}

ChooseMetricsInput ==
  /\ fin = NoCall
  /\ \E in \in MetricInputs : fin' = [fn |-> "extract_metrics"] @@ in
  /\ fout' = NoCall
  /\ UNCHANGED <<zvars, now, store, ivars, evars, xvars>>

ExtractMetrics ==
  /\ fin.fn = "extract_metrics"
  /\ fout = NoCall
  /\ fout' = [fn |-> "extract_metrics",
              res |-> extract_metrics(fin.transcript, fin.vtt_content, fin.coach_name)]
  /\ UNCHANGED <<zvars, fin, now, store, ivars, evars, xvars>>

ChooseAnalyticsInput ==
  /\ fin = NoCall
  /\ \E t \in RoleTranscripts, v \in {None, OneVtt} :
        fin' = [fn |-> "calculate_call_analytics", transcript |-> t, vtt_content |-> v]
  /\ fout' = NoCall
  /\ UNCHANGED <<zvars, now, store, ivars, evars, xvars>>

CalculateCallAnalytics ==
  /\ fin.fn = "calculate_call_analytics"
  /\ fout = NoCall
  /\ fout' = [fn |-> "calculate_call_analytics",
              res |-> calculate_call_analytics(fin.transcript, fin.vtt_content)]
  /\ UNCHANGED <<zvars, fin, now, store, ivars, evars, xvars>>

\* ---------------------------------------------------- metrics partitions
\* A partition is <<year, month>>, the year= and month= of the object key.

\* (mutant) the year is not decremented when the month wraps
TryPartitionMut(year, month, month_offset) ==
  LET try_month == month + month_offset
  IN IF try_month < 1 THEN <<year, try_month + 12>> ELSE <<year, try_month>>

\* load_metrics_from_s3: try_month and try_year for one month_offset
TryPartition(year, month, month_offset) ==
  LET try_month == month + month_offset
  IN IF try_month < 1 THEN <<year - 1, try_month + 12>> ELSE <<year, try_month>>

MonthOffsets == <<0, -1, -2>>

\* the loop of load_metrics_from_s3 from the i-th offset on, at the date
\* year/month: the partitions it asks the object store for, and the metrics it
\* returns.  stored is the set of partitions that hold metrics of the meeting
\* (the metrics of a partition are named by the partition); getOk[i] = FALSE is
\* a get_object that raises something other than NoSuchKey
RECURSIVE ProbeFrom(_, _, _, _, _)
ProbeFrom(year, month, stored, getOk, i) ==
  IF i > Len(MonthOffsets) THEN [probed |-> <<>>, metrics |-> None]
  ELSE LET key == TryPartition(year, month, MonthOffsets[i])
       IN IF getOk[i] /\ key \in stored
            THEN [probed |-> <<key>>, metrics |-> Some(key)]
            ELSE LET rest == ProbeFrom(year, month, stored, getOk, i + 1)
                 IN [probed |-> <<key>> \o rest.probed, metrics |-> rest.metrics]

load_metrics_from_s3(year, month, stored, getOk) == ProbeFrom(year, month, stored, getOk, 1)

Years == {2024, 2025}

CalendarMonths == 1..12

\* the partition k months before <<year, month>> (after it for negative k)
RECURSIVE MonthsBefore(_, _, _)
MonthsBefore(year, month, k) ==
  IF k = 0 THEN <<year, month>>
  ELSE IF k > 0
    THEN IF month = 1 THEN MonthsBefore(year - 1, 12, k - 1)
         ELSE MonthsBefore(year, month - 1, k - 1)
    ELSE IF month = 12 THEN MonthsBefore(year + 1, 1, k + 1)
         ELSE MonthsBefore(year, month + 1, k + 1)

\* the partitions that may hold metrics at a date: the month after it, the
\* month itself, the three months before it and the same month a year before
NearPartitions(year, month) ==
  {MonthsBefore(year, month, k) : k \in -1..3} \cup {<<year - 1, month>>}

ChooseProbeInput ==
  /\ fin = NoCall
  /\ \E year \in Years, month \in CalendarMonths, getOk \in [1..3 -> BOOLEAN] :
        \E stored \in SUBSET NearPartitions(year, month) :
           fin' = [fn |-> "load_metrics_from_s3", year |-> year, month |-> month,
                   stored |-> stored, getOk |-> getOk]
  /\ fout' = NoCall
  /\ UNCHANGED <<zvars, now, store, ivars, evars, xvars>>

LoadMetrics ==
  /\ fin.fn = "load_metrics_from_s3"
  /\ fout = NoCall
  /\ fout' = [fn |-> "load_metrics_from_s3",
              res |-> load_metrics_from_s3(fin.year, fin.month, fin.stored, fin.getOk)]
  /\ UNCHANGED <<zvars, fin, now, store, ivars, evars, xvars>>

\* ---------------------------------------------------------- zoom client
\* ZoomClient.__init__: no token, three empty caches.  _recordings_cache maps
\* a date to the list cached for it, _meeting_cache a cache key to a result,
\* _coach_emails a lowercase name to an email
EmptyDict == [k \in {} |-> None]
NewZoomClient ==
  [access_token |-> None, recordings_cache |-> EmptyDict,
   coach_emails |-> EmptyDict, meeting_cache |-> EmptyDict]
NoZoomCall == [fn |-> "none", n |-> 0]

\* dict[key] = value
DictSet(d, key, value) ==
  [k \in DOMAIN d \cup {key} |-> IF k = key THEN value ELSE d[k]]

\* authenticate: the token of a 200 response is kept, anything else leaves
\* the client as it was and returns False
authenticate(z, authOk) ==
  IF authOk THEN [zoom |-> [z EXCEPT !.access_token = Some("token")], ret |-> TRUE]
  ELSE [zoom |-> z, ret |-> FALSE]

\* _ensure_authenticated: authenticates only when there is no token, and
\* raises when that fails
ensure_authenticated(z, authOk) ==
  IF z.access_token # None THEN [zoom |-> z, raised |-> "none"]
  ELSE LET a == authenticate(z, authOk)
       IN [zoom |-> a.zoom, raised |-> IF a.ret THEN "none" ELSE "RuntimeError"]

\* the users the account answers GET /users with
ZoomUsers ==
  { [first_name |-> <<"A", "l">>, last_name |-> <<"B">>, display_name |-> <<"A", "l">>,
     email |-> <<"A", "@", "e">>] }

\* the name -> email pairs written for one user
UserKeys(user) ==
  LET full_name == Lower(Strip(user.first_name \o <<" ">> \o user.last_name))
  IN (IF full_name # <<>> THEN {full_name} ELSE {})
     \cup (IF user.display_name # <<>> THEN {Lower(user.display_name)} ELSE {})

\* load_coach_emails after _ensure_authenticated: a mapping that is not empty
\* is kept; else GET /users, whose 200 response fills the mapping and whose
\* failure to connect propagates
load_coach_emails(z, usersResp) ==
  IF DOMAIN z.coach_emails # {} THEN [zoom |-> z, raised |-> "none"]
  ELSE IF usersResp = "error" THEN [zoom |-> z, raised |-> "ConnectionError"]
  ELSE IF usersResp = "ok"
    THEN [zoom |-> [z EXCEPT !.coach_emails =
                      [k \in UNION {UserKeys(u) : u \in ZoomUsers} |->
                         Lower((CHOOSE u \in ZoomUsers : k \in UserKeys(u)).email)]],
          raised |-> "none"]
  ELSE [zoom |-> z, raised |-> "none"]

\* self._coach_emails.get(coach_name.lower())
coach_email_of(z, coach_name) ==
  IF Lower(coach_name) \in DOMAIN z.coach_emails
  THEN Some(z.coach_emails[Lower(coach_name)]) ELSE None

\* get_recordings_for_date that does not cache the empty list of a failed fetch
get_recordings_for_dateMut(z, date_str, recResp) ==
  IF date_str \in DOMAIN z.recordings_cache
  THEN [zoom |-> z, ret |-> z.recordings_cache[date_str], requests |-> 0]
  ELSE LET recordings == IF recResp.kind = "ok" THEN recResp.meetings ELSE <<>>
       IN [zoom |-> IF recResp.kind = "ok"
                    THEN [z EXCEPT !.recordings_cache = DictSet(@, date_str, recordings)]
                    ELSE z,
           ret |-> recordings, requests |-> 1]

\* get_recordings_for_date after _ensure_authenticated: a cached date is
\* answered from the cache; else one request, whose 200 response is cached
\* and returned, and any other outcome caches and returns the empty list
get_recordings_for_date(z, date_str, recResp) ==
  IF date_str \in DOMAIN z.recordings_cache
  THEN [zoom |-> z, ret |-> z.recordings_cache[date_str], requests |-> 0]
  ELSE LET recordings == IF recResp.kind = "ok" THEN recResp.meetings ELSE <<>>
       IN [zoom |-> [z EXCEPT !.recordings_cache = DictSet(@, date_str, recordings)],
           ret |-> recordings, requests |-> 1]

\* s.replace(old, new) for single characters
ReplaceChar(s, old, new) == [k \in DOMAIN s |-> IF s[k] = old THEN new ELSE s[k]]

\* client_identifier.split('@')[0].replace('.', ' ').replace('_', ' ')
NameParts(client_identifier) ==
  LET at == Find(client_identifier, <<"@">>)
      head == IF at = -1 THEN client_identifier ELSE SubSeq(client_identifier, 1, at)
  IN ReplaceChar(ReplaceChar(head, ".", " "), "_", " ")

\* dt.strftime('%Y-%m-%d') of the days used
DateStr(day) == IF day = 0 THEN <<"2024-01-15">> ELSE <<"2024-01-16">>

\* f"{client_identifier}_{date}_{coach_name or ''}"
CacheKey(client_identifier, dt, coach_name) ==
  client_identifier \o <<"_">> \o DateStr(dt.day) \o <<"_">>
    \o (IF coach_name = None THEN <<>> ELSE coach_name[1])

\* abs((meeting_dt - dt).total_seconds())
SecondsPerHour == 3600
Abs(x) == IF x < 0 THEN -x ELSE x
TimeDiff(meeting_dt, dt) ==
  Abs((meeting_dt.day * 24 + meeting_dt.hour) - (dt.day * 24 + dt.hour)) * SecondsPerHour

\* str(meeting.get('id'))
IdDigits == <<"1", "2", "3", "4", "5", "6", "7", "8", "9">>
IdStr(id) == IF id = None THEN <<"N", "o", "n", "e">> ELSE <<IdDigits[id[1]]>>

\* the test both strategies make on a candidate's start_time: a missing key
\* (KeyError) or an unparsable string (ValueError) is passed over; a start
\* time that is comparable and within the window is the match; subtracting an
\* offset-aware from an offset-naive datetime raises TypeError, which is not
\* caught
Parses(meeting) == meeting.start_time.kind = "iso"
Comparable(meeting, dt) == meeting.start_time.aware = dt.aware
WithinWindow(meeting, dt, time_window_hours) ==
  TimeDiff(meeting.start_time, dt) <= time_window_hours * SecondsPerHour
Stops(meeting, dt, time_window_hours) ==
  /\ Parses(meeting)
  /\ (~Comparable(meeting, dt) \/ WithinWindow(meeting, dt, time_window_hours))

\* the first recording, in list order, of the candidates (the positions the
\* loop does not skip) at which the loop stops, 0 if it runs to the end
FirstStop(recordings, candidates, dt, time_window_hours) ==
  LET stops == {i \in candidates : Stops(recordings[i], dt, time_window_hours)}
  IN IF stops = {} THEN 0 ELSE CHOOSE i \in stops : \A j \in stops : i <= j

\* name_parts.lower() in topic or client_identifier.lower() in topic
ClientInTopic(meeting, client_identifier) ==
  \/ Contains(Lower(meeting.topic), Lower(NameParts(client_identifier)))
  \/ Contains(Lower(meeting.topic), Lower(client_identifier))

HostedBy(meeting, coach_email) == Lower(meeting.host_email) = coach_email

\* Strategy 1's result for the recording it stops at
CoachMatchType(meeting, client_identifier) ==
  IF ClientInTopic(meeting, client_identifier) THEN "adviser+client" ELSE "adviser+time"

\* the result when neither strategy matched
NoMatchType(coach_name, coach_email) ==
  IF /\ coach_name # None /\ coach_name[1] # <<>>
     /\ (coach_email = None \/ coach_email[1] = <<>>)
  THEN "adviser_not_found" ELSE "no_recording"

Found(id, match_type) == [meeting_id |-> Some(id), match_type |-> match_type]
NotFound(match_type) == [meeting_id |-> None, match_type |-> match_type]

\* find_meeting from the cache lookup on: z has the token and the mapping
\* loaded (or not), dt is the parsed call_datetime
SearchMeeting(z, client_identifier, dt, coach_name, time_window_hours, resp) ==
  LET cache_key == CacheKey(client_identifier, dt, coach_name)
      named == coach_name # None /\ coach_name[1] # <<>>
      \* get_coach_email loads the mapping once more while it is empty
      l == IF named THEN load_coach_emails(z, resp.users2) ELSE [zoom |-> z, raised |-> "none"]
      coach_email == IF named /\ l.raised = "none"
                     THEN coach_email_of(l.zoom, coach_name[1]) ELSE None
      g == get_recordings_for_date(l.zoom, DateStr(dt.day), resp.recordings)
      recordings == g.ret
      by_host == IF coach_email # None /\ coach_email[1] # <<>>
                 THEN FirstStop(recordings,
                                {i \in DOMAIN recordings :
                                   HostedBy(recordings[i], coach_email[1])},
                                dt, time_window_hours)
                 ELSE 0
      by_topic == FirstStop(recordings,
                            {i \in DOMAIN recordings :
                               ClientInTopic(recordings[i], client_identifier)},
                            dt, time_window_hours)
      cached_as(result) ==
        [zoom |-> [g.zoom EXCEPT !.meeting_cache = DictSet(@, cache_key, result)],
         ret |-> Some(result), raised |-> "none", cached |-> FALSE, requests |-> g.requests]
  IN IF cache_key \in DOMAIN z.meeting_cache
     THEN [zoom |-> z, ret |-> Some(z.meeting_cache[cache_key]), raised |-> "none",
           cached |-> TRUE, requests |-> 0]
     ELSE IF l.raised # "none"
     THEN [zoom |-> l.zoom, ret |-> None, raised |-> l.raised, cached |-> FALSE, requests |-> 0]
     ELSE IF by_host # 0
     THEN IF ~Comparable(recordings[by_host], dt)
          THEN [zoom |-> g.zoom, ret |-> None, raised |-> "TypeError", cached |-> FALSE,
                requests |-> g.requests]
          ELSE cached_as(Found(IdStr(recordings[by_host].id),
                           CoachMatchType(recordings[by_host], client_identifier)))
     ELSE IF by_topic # 0
     THEN IF ~Comparable(recordings[by_topic], dt)
          THEN [zoom |-> g.zoom, ret |-> None, raised |-> "TypeError", cached |-> FALSE,
                requests |-> g.requests]
          ELSE cached_as(Found(IdStr(recordings[by_topic].id), "client_topic"))
     ELSE cached_as(NotFound(NoMatchType(coach_name, coach_email)))

\* find_meeting: _ensure_authenticated, load_coach_emails, the parse of
\* call_datetime, then the search; resp holds the outcomes of its requests
find_meeting(z, client_identifier, call_datetime, coach_name, time_window_hours, resp) ==
  LET a == ensure_authenticated(z, resp.auth)
      l == load_coach_emails(a.zoom, resp.users)
  IN IF a.raised # "none"
     THEN [zoom |-> a.zoom, ret |-> None, raised |-> a.raised, cached |-> FALSE, requests |-> 0]
     ELSE IF l.raised # "none"
     THEN [zoom |-> l.zoom, ret |-> None, raised |-> l.raised, cached |-> FALSE, requests |-> 0]
     ELSE IF call_datetime.kind # "iso"
     THEN [zoom |-> l.zoom, ret |-> Some(NotFound("invalid_date")), raised |-> "none",
           cached |-> FALSE, requests |-> 0]
     ELSE SearchMeeting(l.zoom, client_identifier, call_datetime, coach_name,
                        time_window_hours, resp)

\* clear_cache: the recordings and the meeting caches are emptied
clear_cache(z) ==
  [z EXCEPT !.recordings_cache = EmptyDict, !.meeting_cache = EmptyDict]

\* the calls made on the client
MaxCalls == 2

ClientIdentifiers == { <<"c", ".", "l", "@", "e">> }
ZoomCoachNames == { None, Some(<<"A", "l">>), Some(<<"B", "o">>) }
Naive(day, hour) == [kind |-> "iso", aware |-> FALSE, day |-> day, hour |-> hour]
Aware(day, hour) == [kind |-> "iso", aware |-> TRUE, day |-> day, hour |-> hour]
CallDatetimes ==
  { [kind |-> "bad"], Aware(0, 9), Aware(0, 12), Aware(1, 9), Naive(0, 12) }
TimeWindows == { 1, 2 }

Recording(id, host_email, topic, start_time) ==
  [id |-> id, host_email |-> host_email, topic |-> topic, start_time |-> start_time]
CoachHost == <<"A", "@", "e">>
OtherHost == <<"o", "@", "e">>
ClientTopic == <<"C", " ", "L", " ", "c", "a", "l", "l">>
OtherTopic == <<"c", "a", "l", "l">>
ByCoach == Recording(Some(1), CoachHost, OtherTopic, Aware(0, 10))
ByCoachWithClient == Recording(Some(2), CoachHost, ClientTopic, Aware(0, 12))
WithClient == Recording(Some(3), OtherHost, ClientTopic, Aware(0, 10))
ByCoachUnparsable == Recording(Some(4), CoachHost, ClientTopic, [kind |-> "bad"])
WithClientUntimed == Recording(None, OtherHost, ClientTopic, [kind |-> "missing"])
AllRecordings == {ByCoach, ByCoachWithClient, WithClient, ByCoachUnparsable, WithClientUntimed}

\* what GET /accounts/me/recordings answers
RecordingsResponses ==
  { [kind |-> "non200"], [kind |-> "error"] }
  \cup { [kind |-> "ok", meetings |-> ms] :
           ms \in { <<WithClient, ByCoach>>, <<ByCoachWithClient>>,
                    <<ByCoachUnparsable, WithClientUntimed, WithClient>> } }
UsersResponses == {"ok", "non200", "error"}
Days == {0, 1}

ZoomCall(fn, args, r) ==
  [fn |-> fn, args |-> args, ret |-> r.ret, raised |-> r.raised, cached |-> r.cached,
   requests |-> r.requests, n |-> zlog.n + 1]

Authenticate ==
  /\ zlog.n < MaxCalls
  /\ \E authOk \in BOOLEAN :
       LET a == authenticate(zoom, authOk)
       IN /\ zoom' = a.zoom
          /\ zlog' = ZoomCall("authenticate", <<>>,
                              [ret |-> Some(a.ret), raised |-> "none", cached |-> FALSE,
                               requests |-> 0])
  /\ UNCHANGED <<ivars, evars, store, xvars, fvars, now>>

\* the outcomes of the requests a call makes: none is drawn for a request
\* that is not made
AuthOutcomes(z) == IF z.access_token = None THEN BOOLEAN ELSE {TRUE}
UsersOutcomes(z) == IF DOMAIN z.coach_emails = {} THEN UsersResponses ELSE {"ok"}
RecordingsOutcomes(z, days) ==
  IF \A d \in days : DateStr(d) \in DOMAIN z.recordings_cache
  THEN {[kind |-> "non200"]} ELSE RecordingsResponses

FindMeeting ==
  /\ zlog.n < MaxCalls
  /\ \E client_identifier \in ClientIdentifiers, call_datetime \in CallDatetimes,
        coach_name \in ZoomCoachNames, time_window_hours \in TimeWindows,
        authOk \in AuthOutcomes(zoom), usersResp \in UsersOutcomes(zoom) :
       \E usersResp2 \in IF usersResp = "non200" /\ coach_name # None /\ call_datetime.kind = "iso"
                          THEN UsersResponses ELSE {"ok"},
          recResp \in RecordingsOutcomes(zoom, IF call_datetime.kind = "iso"
                                                THEN {call_datetime.day} ELSE {}) :
       LET r == find_meeting(zoom, client_identifier, call_datetime, coach_name,
                             time_window_hours,
                             [auth |-> authOk, users |-> usersResp, users2 |-> usersResp2,
                              recordings |-> recResp])
       IN /\ zoom' = r.zoom
          /\ zlog' = ZoomCall("find_meeting",
                              [client_identifier |-> client_identifier,
                               call_datetime |-> call_datetime, coach_name |-> coach_name,
                               time_window_hours |-> time_window_hours], r)
  /\ UNCHANGED <<ivars, evars, store, xvars, fvars, now>>

GetRecordingsForDate ==
  /\ zlog.n < MaxCalls
  /\ \E day \in Days, authOk \in AuthOutcomes(zoom) :
     \E recResp \in RecordingsOutcomes(zoom, {day}) :
       LET a == ensure_authenticated(zoom, authOk)
           g == get_recordings_for_date(a.zoom, DateStr(day), recResp)
           r == IF a.raised # "none"
                THEN [zoom |-> a.zoom, ret |-> None, raised |-> a.raised, cached |-> FALSE,
                      requests |-> 0]
                ELSE [zoom |-> g.zoom, ret |-> Some(g.ret), raised |-> "none",
                      cached |-> g.requests = 0, requests |-> g.requests]
       IN /\ zoom' = r.zoom
          /\ zlog' = ZoomCall("get_recordings_for_date", [date_str |-> DateStr(day)], r)
  /\ UNCHANGED <<ivars, evars, store, xvars, fvars, now>>

ClearCache ==
  /\ zlog.n < MaxCalls
  /\ zoom' = clear_cache(zoom)
  /\ zlog' = ZoomCall("clear_cache", <<>>,
                      [ret |-> None, raised |-> "none", cached |-> FALSE, requests |-> 0])
  /\ UNCHANGED <<ivars, evars, store, xvars, fvars, now>>

\* -------------------------------------------------------- specifications
Init ==
  /\ now = 0
  /\ rec = [status |-> Absent, key |-> NoKey, passRate |-> 0]
  /\ s3 = [m \in Months |-> None]
  /\ tbl = [i \in ItemIds |-> None]
  /\ ipc = [p \in Reqs |-> "idle"]
  /\ ireq = [p \in Reqs |-> [meetingId |-> "", forceReprocess |-> FALSE]]
  /\ iresp = [p \in Reqs |-> NoResp]
  /\ ihist = [p \in Reqs |-> NoIHist]
  /\ epc = [e \in Reqs |-> "none"]
  /\ eevent = [e \in Reqs |-> NoEvent]
  /\ edata = [e \in Reqs |-> NoPayload]
  /\ eidx = [e \in Reqs |-> 0]
  /\ eres = [e \in Reqs |-> NoRes]
  /\ ehist = [e \in Reqs |-> NoEHist]
  /\ ms3 = [m \in MetricsMonths |-> None]
  /\ xpc = [x \in Reqs |-> "none"]
  /\ xevent = [x \in Reqs |-> NoXEvent]
  /\ xdata = [x \in Reqs |-> NoMetrics]
  /\ xres = [x \in Reqs |-> NoXRes]
  /\ xhist = [x \in Reqs |-> NoXHist]
  /\ fin = NoCall
  /\ fout = NoCall
  /\ zoom = NewZoomClient
  /\ zlog = NoZoomCall

\* the steps of a case-check invocation after its start; oks are the outcomes
\* of its calls to the stores, the prompt lookup and the classifier
CaseCheckStep(e, oks, responses) ==
  \/ \E s3Ok \in oks : CheckExisting(e, s3Ok)
  \/ /\ epc[e] = "classify"
     /\ \E transcriptOk, promptArn, invokeOk \in oks : \E resp \in responses :
           Classify(e, transcriptOk, promptArn, invokeOk, resp)
  \/ \E s3Ok \in oks : SaveCaseJson(e, s3Ok)
  \/ \E putOk \in oks : PutCheck(e, putOk)
  \/ \E putOk \in oks : PutOverall(e, putOk)

\* the arrival of an initiate request
ReceiveStep(p) ==
  /\ ipc[p] = "idle"
  /\ \E b \in Bodies, ddbOk \in BOOLEAN : Receive(p, b, ddbOk)

\* the steps of an initiate request after its arrival
InitiateStep(p) ==
  \/ \E s3Ok \in BOOLEAN : FetchFull(p, s3Ok)
  \/ \E ddbOk \in BOOLEAN : MarkQueued(p, ddbOk)
  \/ \E ddbOk \in BOOLEAN : ReRead(p, ddbOk)
  \/ \E sfnOk \in BOOLEAN : StartExecution(p, sfnOk)

\* concurrent initiate requests and the executions they start
Next ==
  \/ \E p \in Reqs : ReceiveStep(p)
  \/ \E p \in Reqs : InitiateStep(p)
  \/ \E e \in Reqs : CaseCheckStep(e, {TRUE}, LifecycleResponses)
  \/ \E e \in Reqs : Complete(e)

Spec == Init /\ [][Next]_vars

\* the steps of an extract-metrics invocation after its start
ExtractMetricsStep(x) ==
  \/ \E getOk \in [1..3 -> BOOLEAN] : XLoad(x, getOk)
  \/ \E transcriptOk, hasVtt \in BOOLEAN : XExtract(x, transcriptOk, hasVtt)
  \/ \E s3Ok \in BOOLEAN : XSave(x, s3Ok)

\* no handler is running
Quiet ==
  /\ \A p \in Reqs : ipc[p] \in {"idle", "done"}
  /\ \A e \in Reqs : epc[e] \in {"none", "returned", "failed", "completed"}
  /\ \A x \in Reqs : xpc[x] \in {"none", "returned", "failed"}

\* responses of the sequential specification: those of the lifecycle, one
\* without tool use, one whose results are an unparsable string and one with a
\* status outside the literal
SeqResponses ==
  LifecycleResponses \cup
  { Resp(FALSE, "end_turn", "list", <<>>, None),
    Resp(TRUE, "tool_use", "str_bad", <<>>, None),
    Resp(TRUE, "tool_use", "list", <<Res("dob_confirmed", "Bogus")>>, None) }

\* the invocations that have ended are forgotten: the state of a handler does
\* not outlive its invocation, the stores and the clock do
Recycle ==
  /\ Quiet
  /\ ipc[1] # "idle" \/ epc[1] # "none" \/ xpc[1] # "none"
  /\ ipc' = [ipc EXCEPT ![1] = "idle"]
  /\ ireq' = [ireq EXCEPT ![1] = [meetingId |-> "", forceReprocess |-> FALSE]]
  /\ iresp' = [iresp EXCEPT ![1] = NoResp]
  /\ ihist' = [ihist EXCEPT ![1] = NoIHist]
  /\ epc' = [epc EXCEPT ![1] = "none"]
  /\ eevent' = [eevent EXCEPT ![1] = NoEvent]
  /\ edata' = [edata EXCEPT ![1] = NoPayload]
  /\ eidx' = [eidx EXCEPT ![1] = 0]
  /\ eres' = [eres EXCEPT ![1] = NoRes]
  /\ ehist' = [ehist EXCEPT ![1] = NoEHist]
  /\ xpc' = [xpc EXCEPT ![1] = "none"]
  /\ xevent' = [xevent EXCEPT ![1] = NoXEvent]
  /\ xdata' = [xdata EXCEPT ![1] = NoMetrics]
  /\ xres' = [xres EXCEPT ![1] = NoXRes]
  /\ xhist' = [xhist EXCEPT ![1] = NoXHist]
  /\ UNCHANGED <<zvars, fvars, now, store>>

\* no invocation is remembered
Fresh == ipc[1] = "idle" /\ epc[1] = "none" /\ xpc[1] = "none"

\* the case-check step invoked again and again, one invocation at a time, with
\* any event, while the months pass
NextSeq ==
  \/ Tick
  \/ Recycle
  \/ \E ev \in Events : Fresh /\ Invoke(1, ev)
  \/ CaseCheckStep(1, BOOLEAN, SeqResponses)

SpecSeq == Init /\ [][NextSeq]_vars

\* the handlers invoked one at a time, with any event: initiate requests 1 and
\* NumReq, a direct case-check invocation NumReq, extract-metrics invocation 1
NextVal ==
  \/ \E p \in {1, NumReq} : Quiet /\ ReceiveStep(p)
  \/ \E p \in {1, NumReq} : InitiateStep(p)
  \/ \E ev \in Events : Quiet /\ Invoke(NumReq, ev)
  \/ \E e \in {1, NumReq} : CaseCheckStep(e, {TRUE}, LifecycleResponses)
  \/ \E e \in {1, NumReq} : Complete(e)
  \/ \E ev \in XEvents : Quiet /\ XInvoke(1, ev)
  \/ ExtractMetricsStep(1)

SpecVal == Init /\ [][NextVal]_vars

\* one invocation of the case-check step, any response of the classifier
NextAgg ==
  \/ \E ev \in Events : Invoke(1, ev)
  \/ CaseCheckStep(1, BOOLEAN, AggResponses)

SpecAgg == Init /\ [][NextAgg]_vars

\* the repair of the classifier's results, for any results
NextSpan ==
  \/ ChooseResults
  \/ Repair

SpecSpan == Init /\ [][NextSpan]_vars


\* the caption parser applied to timestamp strings and to caption files
NextVtt ==
  \/ ChooseTimestamp
  \/ ParseTimestamp
  \/ ChooseVtt
  \/ ParseVttSegments

SpecVtt == Init /\ [][NextVtt]_vars

\* the two get_vtt_duration functions applied to caption files
NextDur ==
  \/ ChooseDurationInput
  \/ GetVttDuration

SpecDur == Init /\ [][NextDur]_vars

\* parse_vtt_with_speakers applied to caption files and coach names
NextSpk ==
  \/ ChooseSpeakerInput
  \/ ParseVttWithSpeakers

SpecSpk == Init /\ [][NextSpk]_vars

\* extract_metrics and calculate_call_analytics applied to transcripts and
\* caption files
NextMet ==
  \/ ChooseMetricsInput
  \/ ExtractMetrics
  \/ ChooseAnalyticsInput
  \/ CalculateCallAnalytics

SpecMet == Init /\ [][NextMet]_vars

\* the extract-metrics step invoked again and again, one invocation at a time,
\* with any event, while the months pass
NextXSeq ==
  \/ XTick
  \/ Recycle
  \/ \E ev \in XEvents : Fresh /\ XInvoke(1, ev)
  \/ ExtractMetricsStep(1)

SpecXSeq == Init /\ [][NextXSeq]_vars

\* load_metrics_from_s3 at every date, on every content of the partitions
NextProbe ==
  \/ ChooseProbeInput
  \/ LoadMetrics

SpecProbe == Init /\ [][NextProbe]_vars

\* calls on one ZoomClient
NextZoom == Authenticate \/ FindMeeting \/ GetRecordingsForDate \/ ClearCache
SpecZoom == Init /\ [][NextZoom]_vars

\* ------------------------------------------------------------------ claims
\* the step is the conditional or forced update_item of request p
MarkStep(p) == ipc[p] = "mark" /\ ipc'[p] # "mark"

\* C1: a non-forced initiate request never changes a caseCheckStatus that is
\* COMPLETED (its update_item leaves the record as it is), and a status that is
\* COMPLETED becomes QUEUED only by the update_item of a request with
\* forceReprocess=true.
C1_NonForcedKeepsCompleted ==
  [][ /\ \A p \in Reqs :
           (MarkStep(p) /\ ~ireq[p].forceReprocess /\ rec.status = "COMPLETED") => rec' = rec
      /\ (rec.status = "COMPLETED" /\ rec'.status # "COMPLETED") =>
           /\ rec'.status = "QUEUED"
           /\ \E p \in Reqs : MarkStep(p) /\ ireq[p].forceReprocess ]_vars

\* a non-forced request has tried its conditional write on a COMPLETED record
C1_Witness ==
  \E p \in Reqs : ihist[p].condFailed /\ ~ireq[p].forceReprocess /\ rec.status = "COMPLETED"

\* C2 (as claimed): the non-forced initiate requests for one meeting start at
\* most one workflow execution between them.
C2_AtMostOneExecution ==
  (\A p \in Reqs : ~ireq[p].forceReprocess) =>
     Cardinality({p \in Reqs : ihist[p].started}) <= 1

\* C3 (as claimed): a non-forced request whose conditional write failed ends
\* with the 200 'already completed' response that carries a case-check key, and
\* starts no workflow.
C3_LostRaceReturnsCompleted ==
  \A p \in Reqs :
     (ihist[p].condFailed /\ ipc[p] = "done") =>
        /\ iresp[p].code = 200
        /\ iresp[p].kind = "already_completed"
        /\ iresp[p].key \in Months
        /\ ~ihist[p].started

\* C4 (as claimed): a non-forced case-check invocation that begins when a
\* payload of the meeting is persisted, and whose read of the object store does
\* not fail, invokes no classifier and writes nothing.
C4_ReuseOncePersisted ==
  \A e \in Reqs :
     (ehist[e].prior /\ ~eevent[e].forceReprocess /\ ~ehist[e].getErr) =>
        /\ ~ehist[e].called
        /\ ~ehist[e].wroteS3
        /\ ~ehist[e].wroteTbl
        /\ epc[e] \notin {"classify", "save", "table"}

\* C5 (as claimed): after a forced case-check invocation has succeeded, the new
\* payload has replaced the prior one: no other payload of the meeting is left
\* in the object store.
C5_ForcedReplacesPrior ==
  \A e \in Reqs :
     (eevent[e].forceReprocess /\ ehist[e].prior /\ epc[e] = "returned") =>
        \A m \in Months : s3[m] # None => s3[m] = Some(edata[e])

\* the step makes invocation e raise before its payload is assembled
RaisesEarly(e) == epc[e] \in {"check", "classify"} /\ epc'[e] = "failed"

\* C6: an invocation whose classifier response was truncated (max_tokens) ends
\* in an error and has written neither the object store nor the assessment
\* table; and every step in which an invocation raises before its payload is
\* assembled leaves the object store and the assessment table unchanged.
C6_NoPartialPersist ==
  /\ [](\A e \in Reqs : ehist[e].truncated =>
           /\ epc[e] = "failed"
           /\ ~ehist[e].wroteS3
           /\ ~ehist[e].wroteTbl)
  /\ [][\A e \in Reqs : RaisesEarly(e) =>
           /\ s3' = s3
           /\ tbl' = tbl
           /\ ~ehist'[e].wroteS3
           /\ ~ehist'[e].wroteTbl]_vars

\* a truncated response has made an invocation fail while a payload is persisted
C6_Witness ==
  \E e \in Reqs : ehist[e].truncated /\ epc[e] = "failed" /\ ehist[e].prior /\ Persisted

\* C7: an invocation in which a put to the assessment table raised still
\* returns, without error, the primary result: caseData is the computed
\* payload, caseKey its key and passRate its pass rate, and the payload is in
\* the object store at that key.
C7_TableFailureNotPropagated ==
  \A e \in Reqs :
     ehist[e].tblFailed =>
        /\ epc[e] = "returned"
        /\ ehist[e].err = ""
        /\ {"caseData", "caseKey", "passRate"} \subseteq eres[e].fields
        /\ eres[e].caseData = edata[e]
        /\ eres[e].passRate = edata[e].overall.pass_rate
        /\ ehist[e].wroteS3
        /\ eres[e].caseKey \in Months
        /\ s3[eres[e].caseKey] = Some(edata[e])

\* a put of a per-check item failed after another one had been written
C7_Witness ==
  \E e \in Reqs : ehist[e].tblFailed /\ ehist[e].wroteTbl /\ epc[e] = "returned"

\* C8: a request without meetingId, or a case-check or extract-metrics event
\* without its transcript key, ends in a validation error, and has then read
\* and written nothing, started no workflow and invoked no classifier.
C8_FailFastValidation ==
  /\ \A p \in Reqs :
       (ipc[p] # "idle" /\ ireq[p].meetingId = "") =>
          /\ ipc[p] = "done"
          /\ iresp[p].kind = "validation"
          /\ ~ihist[p].touched /\ ~ihist[p].queued /\ ~ihist[p].started
  /\ \A e \in Reqs :
       (epc[e] \notin {"none", "check"}
          /\ (eevent[e].meetingId = "" \/ eevent[e].redactedTranscriptKey = "")) =>
          /\ epc[e] = "failed"
          /\ ehist[e].err = "validation"
          /\ ~ehist[e].read /\ ~ehist[e].called /\ ~ehist[e].wroteS3 /\ ~ehist[e].wroteTbl
  /\ \A x \in Reqs :
       (xpc[x] \notin {"none", "load"}
          /\ (xevent[x].meetingId = "" \/ xevent[x].transcriptKey = "")) =>
          /\ xpc[x] = "failed"
          /\ xhist[x].err = "validation"
          /\ ~xhist[x].read /\ ~xhist[x].fetched /\ ~xhist[x].wrote

\* each of the three handlers has rejected a request without meetingId, while
\* a payload and metrics are persisted
C8_Witness ==
  /\ ipc[1] = "done" /\ ireq[1].meetingId = ""
  /\ epc[NumReq] = "failed" /\ eevent[NumReq].meetingId = ""
  /\ xpc[1] = "failed" /\ xevent[1].meetingId = ""

\* the elements of a sequence
Range(seq) == {seq[i] : i \in DOMAIN seq}

\* C9 (as claimed): in every persisted payload with n > 0 results, failed_ids
\* holds exactly the ids of the results with status Fail and pass_rate is
\* 100*(n-|failed_ids|)/n (to one decimal).
C9_OverallMatchesResults ==
  \A m \in Months :
     (s3[m] # None /\ Len(s3[m][1].results) > 0) =>
        LET d == s3[m][1]
            n == Len(d.results)
        IN /\ Range(d.overall.failed_ids) =
                {d.results[i].id : i \in {j \in DOMAIN d.results : d.results[j].status = "Fail"}}
           /\ d.overall.pass_rate = RoundHalfEven(1000 * (n - Len(d.overall.failed_ids)), n)

\* a result is a Fail on a checklist item of severity high
HighFail(r) ==
  /\ r.status = "Fail"
  /\ \E i \in DOMAIN STARTER_SESSION_CHECKS :
        STARTER_SESSION_CHECKS[i].id = r.id /\ STARTER_SESSION_CHECKS[i].severity = "high"

\* C10: in every persisted payload, overall.has_high_severity_failures is true
\* exactly when some result is a Fail on a checklist item of severity high.
C10_HighSeverityRecomputed ==
  \A m \in Months :
     s3[m] # None =>
        (s3[m][1].overall.has_high_severity_failures
           <=> \E i \in DOMAIN s3[m][1].results : HighFail(s3[m][1].results[i]))

\* a payload is persisted whose overall came from the classifier without any
\* high-severity flag, and whose results hold a high-severity Fail
C10_Witness ==
  \E m \in Months :
     /\ s3[m] # None
     /\ \E i \in DOMAIN s3[m][1].results : HighFail(s3[m][1].results[i])
     /\ s3[m][1].overall.high_severity_flags = <<>>
     /\ s3[m][1].overall.has_high_severity_failures

\* the ids of the static checklist
ChecklistIds == {STARTER_SESSION_CHECKS[i].id : i \in DOMAIN STARTER_SESSION_CHECKS}

\* the ids of the results that satisfy a condition, in the order of the results
IdsWhere(results, Cond(_)) ==
  LET sel == SelectSeq(results, Cond) IN [i \in 1..Len(sel) |-> sel[i].id]

IsFail(r) == r.status = "Fail"

\* p (in tenths) is x/n rounded to the nearest tenth, a tie going to the even one
NearestTenth(p, x, n) ==
  /\ 2 * (p * n - x) <= n
  /\ 2 * (x - p * n) <= n
  /\ (2 * (p * n - x) = n \/ 2 * (x - p * n) = n) => p % 2 = 0

\* invocation e has assembled a payload from a response without 'overall'
OverallOmitted(e) ==
  /\ ehist[e].resp # None
  /\ ehist[e].resp[1].overall = None
  /\ ehist[e].err = ""
  /\ epc[e] \in {"save", "table", "returned"}

\* C11: when the classifier omits 'overall', the payload's overall is computed
\* from the n results: failed_ids lists the ids of exactly the Fail results,
\* high_severity_flags those of them whose checklist severity is high,
\* has_high_severity_failures says that there is one, and pass_rate is
\* 100*(n-|failed_ids|)/n rounded to one decimal, 0.0 when n = 0.
C11_OverallComputed ==
  \A e \in Reqs :
     OverallOmitted(e) =>
        LET rs == ehist[e].resp[1].results
            n == Len(rs)
            o == edata[e].overall
        IN /\ o.failed_ids = IdsWhere(rs, IsFail)
           /\ o.high_severity_flags = IdsWhere(rs, HighFail)
           /\ o.has_high_severity_failures = (o.high_severity_flags # <<>>)
           /\ IF n > 0 THEN NearestTenth(o.pass_rate, 1000 * (n - Len(o.failed_ids)), n)
                       ELSE o.pass_rate = 0

\* the example of the claim: a high-severity Fail and a Competent, no overall,
\* give pass_rate 50.0, one failed id and has_high_severity_failures
C11_Witness ==
  \E e \in Reqs :
     /\ OverallOmitted(e)
     /\ ehist[e].resp[1].results =
          <<Res("call_recording_confirmed", "Fail"), Res("dob_confirmed", "Competent")>>
     /\ edata[e].overall = [pass_rate |-> 500, failed_ids |-> <<"call_recording_confirmed">>,
                            high_severity_flags |-> <<"call_recording_confirmed">>,
                            has_high_severity_failures |-> TRUE]

\* C12: the hasVulnerability a case-check computation returns is true exactly
\* when some result of the classifier has id vulnerability_identified and
\* status Competent or Fail.
C12_VulnerabilityIndicator ==
  \A e \in Reqs :
     (epc[e] = "returned" /\ ehist[e].resp # None) =>
        (eres[e].hasVulnerability <=>
           \E i \in DOMAIN ehist[e].resp[1].results :
              /\ ehist[e].resp[1].results[i].id = "vulnerability_identified"
              /\ ehist[e].resp[1].results[i].status \in {"Competent", "Fail"})

\* a computation returned without the indicator although its results hold
\* vulnerability_identified (with another status) and a Fail on another id
C12_Witness ==
  \E e \in Reqs :
     /\ epc[e] = "returned"
     /\ ehist[e].resp # None
     /\ ~eres[e].hasVulnerability
     /\ \E i, j \in DOMAIN ehist[e].resp[1].results :
          /\ ehist[e].resp[1].results[i].id = "vulnerability_identified"
          /\ ehist[e].resp[1].results[i].status = "CompetentWithDevelopment"
          /\ ehist[e].resp[1].results[j].id # "vulnerability_identified"
          /\ ehist[e].resp[1].results[j].status = "Fail"

\* the response is well formed but for the ids of its results
WellFormedButIds(resp) ==
  /\ resp.toolUse
  /\ resp.stopReason # "max_tokens"
  /\ resp.resultsKind \in {"list", "str_list"}
  /\ \A i \in DOMAIN resp.results : resp.results[i].status \in Status

\* C13: a result whose id is not in the checklist makes neither the
\* aggregation nor the writing of the assessment items fail (a well-formed
\* response raises no error but that of a failing put of the payload); its item
\* has theme businessRisk, a Fail on it counts among the business-risk failures
\* and the computed failed_ids, and it is never a high-severity flag.
C13_UnknownIdTolerated ==
  \A e \in Reqs :
     (ehist[e].resp # None /\ WellFormedButIds(ehist[e].resp[1])) =>
        LET rs == ehist[e].resp[1].results
            unknown == {i \in DOMAIN rs : rs[i].id \notin ChecklistIds}
        IN /\ ehist[e].err \in {"", "s3_put"}
           /\ epc[e] \in {"save", "table", "returned"} =>
                /\ OverallOmitted(e) =>
                     \A i \in unknown :
                        /\ rs[i].id \notin Range(edata[e].overall.high_severity_flags)
                        /\ rs[i].status = "Fail" =>
                             rs[i].id \in Range(edata[e].overall.failed_ids)
                /\ edata[e].overall.has_high_severity_failures =>
                     \E i \in DOMAIN rs \ unknown : rs[i].status = "Fail"
           /\ (epc[e] = "returned" /\ ~ehist[e].tblFailed) =>
                \A i \in unknown : rs[i].id # "" =>
                   /\ tbl[rs[i].id] # None
                   /\ tbl[rs[i].id][1].theme = "businessRisk"
                   /\ rs[i].status = "Fail" =>
                        /\ rs[i].id \in Range(tbl["#overall"][1].business_risk_failures)
                        /\ rs[i].id \notin Range(tbl["#overall"][1].customer_exp_failures)

\* a computation whose only failure is on an id outside the checklist has
\* returned and written its items
C13_Witness ==
  \E e \in Reqs :
     /\ epc[e] = "returned"
     /\ ~ehist[e].tblFailed
     /\ OverallOmitted(e)
     /\ ehist[e].resp[1].results =
          <<Res("not_in_checklist", "Fail"), Res("dob_confirmed", "Competent")>>
     /\ tbl["not_in_checklist"] # None

\* the repair has been applied to the results that arrived
Repaired == fin.fn = "repair" /\ fout.fn = "repair"

\* a supplied entry is a valid span: two elements, both integers after
\* coercion, start <= end
IsValidSpan(span) ==
  /\ span.isList
  /\ Len(span.elems) = 2
  /\ \A k \in 1..2 : span.elems[k].kind \in {"int", "numstr", "float"}
  /\ IntOf(span.elems[1]).v <= IntOf(span.elems[2]).v

\* the valid supplied spans of a result, coerced, in order
SuppliedValid(result_item) ==
  LET valid == SelectSeq(result_item.evidence_spans, IsValidSpan)
  IN [k \in 1..Len(valid) |-> <<IntOf(valid[k].elems[1]).v, IntOf(valid[k].elems[2]).v>>]

\* q occurs in text at offset p
OccursAt(text, q, p) ==
  /\ p >= 0
  /\ p + Len(q) <= Len(text)
  /\ \A k \in 1..Len(q) : text[p + k] = q[k]

\* p is the offset of the first occurrence of q in text
FirstAt(text, q, p) == OccursAt(text, q, p) /\ \A h \in 0..(p - 1) : ~OccursAt(text, q, h)

Occurs(text, q) == \E p \in 0..Len(text) : OccursAt(text, q, p)

\* the first n characters of q (all of q if it is shorter)
FirstChars(q, n) == [k \in 1..(IF Len(q) < n THEN Len(q) ELSE n) |-> q[k]]

\* the stripped quote of a result, <<>> if the quote is null
CleanQuote(result_item) ==
  IF result_item.evidence_quote = None THEN <<>> ELSE Strip(result_item.evidence_quote[1])

\* C14 (as claimed): after the clean-up, every evidence span of every result of
\* the payload is a pair of integers [start, end] with start <= end.
C14_SpansWellFormed ==
  Repaired =>
     \A i \in DOMAIN fout.results :
        \A k \in DOMAIN fout.results[i].evidence_spans :
           LET span == fout.results[i].evidence_spans[k]
           IN /\ Len(span) = 2
              /\ span[1] \in Int
              /\ span[2] \in Int
              /\ span[1] <= span[2]

\* C15 (as claimed): a result that arrives with at least one valid span keeps
\* exactly its valid spans (coerced) as evidence_spans and nothing is searched
\* for it; something is searched for a result only if it has no valid span and
\* its stripped quote is not empty.
C15_ValidSpansKept ==
  Repaired =>
     \A i \in DOMAIN fin.results :
        /\ SuppliedValid(fin.results[i]) # <<>> =>
             /\ fout.results[i].evidence_spans = SuppliedValid(fin.results[i])
             /\ fout.results[i].finds = <<>>
        /\ fout.results[i].finds # <<>> =>
             /\ SuppliedValid(fin.results[i]) = <<>>
             /\ CleanQuote(fin.results[i]) # <<>>

\* C16 (as claimed): for a result without valid supplied spans and with a
\* non-empty stripped quote: if the quote first occurs in the transcript at
\* offset p, the spans are [[p, p + L]]; if neither the quote nor its first 50
\* characters occur, the spans are empty.
C16_SearchResolves ==
  Repaired =>
     \A i \in DOMAIN fin.results :
        LET q == CleanQuote(fin.results[i])
            t == fin.full_transcript
        IN (SuppliedValid(fin.results[i]) = <<>> /\ q # <<>>) =>
              /\ \A p \in 0..Len(t) :
                    FirstAt(t, q, p) => fout.results[i].evidence_spans = <<<<p, p + Len(q)>>>>
              /\ (~Occurs(t, q) /\ ~Occurs(t, FirstChars(q, ShortQuoteLen))) =>
                    fout.results[i].evidence_spans = <<>>

\* C17: when something is searched for a result, the first needle is the
\* stripped quote; a second needle is searched only after the first was not
\* found, and it is the first 50 characters of the quote; when the quote is not
\* found and its first 50 characters first occur at offset pos, the span is
\* [pos, pos + length of the full stripped quote].
C17_PrefixSearch ==
  Repaired =>
     \A i \in DOMAIN fin.results :
        LET q == CleanQuote(fin.results[i])
            t == fin.full_transcript
            finds == fout.results[i].finds
        IN finds # <<>> =>
              /\ finds[1] = q
              /\ Len(finds) <= 2
              /\ Len(finds) = 2 <=> ~Occurs(t, q)
              /\ Len(finds) = 2 => finds[2] = FirstChars(q, ShortQuoteLen)
              /\ ~Occurs(t, q) =>
                    \A pos \in 0..Len(t) :
                       FirstAt(t, FirstChars(q, ShortQuoteLen), pos) =>
                          fout.results[i].evidence_spans = <<<<pos, pos + Len(q)>>>>

\* a quote of 53 characters is not in the transcript, its first 50 characters
\* are, at offset 1: the span is [1, 54]
C17_Witness ==
  /\ Repaired
  /\ Len(fin.results) = 1
  /\ Len(CleanQuote(fin.results[1])) > ShortQuoteLen
  /\ Len(fout.results[1].finds) = 2
  /\ fout.results[1].evidence_spans = <<<<1, 1 + Len(CleanQuote(fin.results[1]))>>>>

\* C18: the repair leaves the list of results as long as it was and each
\* result at its place with its id and its status; the confidence of each is
\* clamped into [0, 1] (tenths: 0..10).
C18_RepairKeepsStatus ==
  Repaired =>
     /\ Len(fout.results) = Len(fin.results)
     /\ \A i \in DOMAIN fin.results :
           /\ fout.results[i].id = fin.results[i].id
           /\ fout.results[i].status = fin.results[i].status
           /\ fout.results[i].confidence \in 0..10
           /\ fin.results[i].confidence \in 0..10 =>
                fout.results[i].confidence = fin.results[i].confidence
           /\ fin.results[i].confidence < 0 => fout.results[i].confidence = 0
           /\ fin.results[i].confidence > 10 => fout.results[i].confidence = 10

\* two results of different status, one confidence below 0 and one above 1,
\* spans supplied for one and searched for the other
C18_Witness ==
  /\ Repaired
  /\ Len(fin.results) = 2
  /\ fin.results[1].status = "Fail" /\ fin.results[2].status = "Competent"
  /\ fin.results[1].confidence < 0 /\ fin.results[2].confidence > 10
  /\ fout.results[1].finds = <<>> /\ fout.results[2].finds # <<>>

\* a timestamp in HH:MM:SS.mmm or MM:SS.mmm form, comma or period
WellFormedTimestamp(ts) ==
  /\ Len(ts) \in {2, 3}
  /\ \A k \in 1..(Len(ts) - 1) : ts[k].kind = "int" /\ ts[k].w = 2
  /\ ts[Len(ts)].kind = "dec" /\ ts[Len(ts)].w = 2

\* the total seconds of a well-formed timestamp, in milliseconds
TotalMs(ts) ==
  IF Len(ts) = 3 THEN ts[1].v * 3600000 + ts[2].v * 60000 + ts[3].ms
  ELSE ts[1].v * 60000 + ts[2].ms

\* a TIME1 --> TIME2 line with both endpoints well formed, TIME1 not after TIME2
WellFormedCue(line) ==
  /\ line.kind = "cue"
  /\ WellFormedTimestamp(line.start)
  /\ WellFormedTimestamp(line.end)
  /\ TotalMs(line.start) <= TotalMs(line.end)

IsBlankLine(line) == line.kind = "text" /\ Strip(line.chars) = <<>>

IsTextLine(line) == line.kind = "text" /\ Strip(line.chars) # <<>>

\* the index of the first line from i on that is not a text line
RECURSIVE TextRunEnd(_, _)
TextRunEnd(lines, i) ==
  IF i > Len(lines) \/ ~IsTextLine(lines[i]) THEN i ELSE TextRunEnd(lines, i + 1)

\* lines from i on read as cue blocks (a well-formed cue line, its text lines,
\* then a blank line or the end of the input): whether they are all cue
\* blocks, and the segment of each cue block that has text
RECURSIVE CueBlocks(_, _)
CueBlocks(lines, i) ==
  IF i > Len(lines) THEN [ok |-> TRUE, segments |-> <<>>]
  ELSE IF IsBlankLine(lines[i]) THEN CueBlocks(lines, i + 1)
  ELSE IF ~WellFormedCue(lines[i]) THEN [ok |-> FALSE, segments |-> <<>>]
  ELSE LET j == TextRunEnd(lines, i + 1)
           text_lines == [k \in 1..(j - i - 1) |-> Strip(lines[i + k].chars)]
           rest == IF j <= Len(lines) /\ ~IsBlankLine(lines[j])
                     THEN [ok |-> FALSE, segments |-> <<>>]
                     ELSE CueBlocks(lines, j)
       IN [ok |-> rest.ok,
           segments |-> (IF text_lines # <<>>
                           THEN <<[start_sec |-> TotalMs(lines[i].start),
                                   end_sec |-> TotalMs(lines[i].end),
                                   text |-> JoinLines(text_lines)]>>
                           ELSE <<>>) \o rest.segments]

VttParsed == fin.fn = "parse_vtt_segments" /\ fout.fn = "parse_vtt_segments"

\* C19 (as claimed): for a caption input made of well-formed cue blocks,
\* parse_vtt_segments returns one segment for each cue block that has text
\* lines, in source order, with the cue's start and end (end_sec >= start_sec)
\* and the text lines joined by single spaces; a cue without text lines gives
\* no segment.
C19_SegmentPerCueBlock ==
  (VttParsed /\ fin.vtt_content # None) =>
     LET blocks == CueBlocks(fin.vtt_content[1], 1)
     IN blocks.ok =>
          /\ ~fout.res.raised
          /\ fout.res.segments = blocks.segments
          /\ \A k \in DOMAIN fout.res.segments :
                fout.res.segments[k].end_sec >= fout.res.segments[k].start_sec

\* a timestamp string that is not numbers separated by colons, or that has
\* neither two nor three parts
MalformedTimestamp(ts) ==
  \/ Len(ts) \notin {2, 3}
  \/ \E k \in DOMAIN ts : ts[k].kind \in {"text", "empty"}

\* C20 (as claimed): parse_timestamp returns the total seconds of a
\* well-formed timestamp and 0.0, without raising, for a malformed one;
\* parse_vtt_segments never raises and returns no segment for a missing or
\* empty input.
C20_ParserNeverRaises ==
  /\ (fin.fn = "parse_timestamp" /\ fout.fn = "parse_timestamp") =>
        /\ WellFormedTimestamp(fin.ts) =>
              ~fout.res.raised /\ fout.res.ms = TotalMs(fin.ts)
        /\ MalformedTimestamp(fin.ts) =>
              ~fout.res.raised /\ fout.res.ms = 0
  /\ VttParsed =>
        /\ ~fout.res.raised
        /\ (fin.vtt_content = None \/ fin.vtt_content[1] = <<>>) => fout.res.segments = <<>>

\* the end of the last cue of the input that has text lines, 0 if there is
\* none; cues are the lines the segment parser recognises
RECURSIVE LastTextCueEnd(_, _)
LastTextCueEnd(lines, i) ==
  IF i = 0 THEN 0
  ELSE IF /\ MatchesTimestamp(lines[i])
          /\ i < Len(lines)
          /\ Stripped(lines[i + 1]) # <<>>
          /\ ~MatchesTimestamp(lines[i + 1])
          /\ ~IsDigit(Stripped(lines[i + 1]))
    THEN TotalMs(lines[i].end)
    ELSE LastTextCueEnd(lines, i - 1)

\* C21 (as claimed): the total call duration is the end time of the last cue
\* that has text, 0.0 if there is none, and the case-check step computes the
\* same duration as the extract-metrics step for every caption input.
C21_DurationAgrees ==
  (fin.fn = "get_vtt_duration" /\ fout.fn = "get_vtt_duration") =>
     /\ fout.extract_metrics =
          (IF fin.vtt_content = None THEN 0
           ELSE LastTextCueEnd(fin.vtt_content[1], Len(fin.vtt_content[1])))
     /\ fout.case_check = fout.extract_metrics

RECURSIVE SumSeq(_)
SumSeq(nums) == IF nums = <<>> THEN 0 ELSE nums[1] + SumSeq(Tail(nums))

\* the text has the 'Name: remainder' shape: 2 to 50 characters, none of them
\* a colon, then a colon
HasNameShape(text) ==
  \E p \in DOMAIN text :
     /\ text[p] = ":"
     /\ \A k \in 1..(p - 1) : text[k] # ":"
     /\ p - 1 >= 2 /\ p - 1 <= 50

\* the characters before the first colon
DetectedName(text) ==
  LET p == CHOOSE q \in DOMAIN text : text[q] = ":" /\ \A k \in 1..(q - 1) : text[k] # ":"
  IN SubSeq(text, 1, p - 1)

\* the characters after the first colon
Remainder(text) ==
  LET p == CHOOSE q \in DOMAIN text : text[q] = ":" /\ \A k \in 1..(q - 1) : text[k] # ":"
  IN SubSeq(text, p + 1, Len(text))

\* the segment is the coach's: shape, and one name contains the other,
\* whatever the case of the letters and the surrounding blanks
IsCoachSegment(text, coach_name) ==
  /\ HasNameShape(text)
  /\ LET name == Lower(Strip(DetectedName(text)))
         coach == Lower(Strip(coach_name))
     IN Occurs(coach, name) \/ Occurs(name, coach)

\* the words of a segment: those of the remainder if it has the shape, else
\* those of the whole text
SegmentWords(text) ==
  IF HasNameShape(text) THEN WordCount(Remainder(text)) ELSE WordCount(text)

SpeakersParsed == fin.fn = "parse_vtt_with_speakers" /\ fout.fn = "parse_vtt_with_speakers"

\* C22: parse_vtt_with_speakers gives the duration and the word count of a
\* segment to COACH if and only if its text has the 'Name: remainder' shape and
\* the coach name contains the detected name or the detected name contains the
\* coach name, case-insensitively; every other segment goes to CLIENT; with an
\* empty coach name all four outputs are zero.
C22_SpeakerAttribution ==
  SpeakersParsed =>
     IF fin.coach_name = None \/ fin.coach_name[1] = <<>>
       THEN fout.res = [coach_duration_sec |-> 0, client_duration_sec |-> 0,
                        coach_words |-> 0, client_words |-> 0]
       ELSE LET segments == parse_vtt_segments(fin.vtt_content).segments
                coach(k) == IsCoachSegment(segments[k].text, fin.coach_name[1])
                duration(k) == segments[k].end_sec - segments[k].start_sec
                words(k) == SegmentWords(segments[k].text)
            IN /\ fout.res.coach_duration_sec =
                    SumSeq([k \in DOMAIN segments |-> IF coach(k) THEN duration(k) ELSE 0])
               /\ fout.res.client_duration_sec =
                    SumSeq([k \in DOMAIN segments |-> IF coach(k) THEN 0 ELSE duration(k)])
               /\ fout.res.coach_words =
                    SumSeq([k \in DOMAIN segments |-> IF coach(k) THEN words(k) ELSE 0])
               /\ fout.res.client_words =
                    SumSeq([k \in DOMAIN segments |-> IF coach(k) THEN 0 ELSE words(k)])

\* the coach is ' al b ', one segment is said by 'Al' and one by 'Bo': the
\* first goes to COACH (1.5 s, 2 words), the second to CLIENT (3537 s, 3 words)
C22_Witness ==
  /\ SpeakersParsed
  /\ fin.coach_name = Some(<<" ", "a", "l", " ", "b", " ">>)
  /\ fin.vtt_content # None
  /\ Len(parse_vtt_segments(fin.vtt_content).segments) = 2
  /\ fout.res = [coach_duration_sec |-> 1500, client_duration_sec |-> 3537000,
                 coach_words |-> 2, client_words |-> 3]

\* two percentages, in tenths, as the claim wants them: they sum to 100 within
\* 0.1 when the total they are shares of is positive, both are 0.0 when it is
\* zero, and each lies in [0, 100]
SharesOfWhole(a, b, total) ==
  /\ total > 0 => (a + b >= 999 /\ a + b <= 1001)
  /\ total = 0 => (a = 0 /\ b = 0)
  /\ a >= 0 /\ a <= 1000
  /\ b >= 0 /\ b <= 1000

MetricsExtracted == fin.fn = "extract_metrics" /\ fout.fn = "extract_metrics"

AnalyticsCalculated ==
  fin.fn = "calculate_call_analytics" /\ fout.fn = "calculate_call_analytics"

\* C23 (as claimed): in Mode A the two speaking percentages are shares of the
\* total speaking time, in Mode B and in calculate_call_analytics the two
\* word ratios are shares of the total words: they sum to 100 within 0.1 when
\* the total is positive, are both 0.0 when it is zero, and lie in [0, 100].
C23_PercentagesSumTo100 ==
  /\ (MetricsExtracted /\ ~fout.res.raised) =>
        LET timing == parse_vtt_with_speakers(fin.vtt_content, fin.coach_name)
            total == IF fout.res.mode = "A"
                       THEN timing.coach_duration_sec + timing.client_duration_sec
                       ELSE WordsOf(fin.transcript, "COACH") + WordsOf(fin.transcript, "CLIENT")
        IN SharesOfWhole(fout.res.coach_speaking_pct, fout.res.client_speaking_pct, total)
  /\ (AnalyticsCalculated /\ ~fout.res.raised) =>
        SharesOfWhole(fout.res.coach_talk_ratio, fout.res.client_talk_ratio,
                      fout.res.total_words)

\* C24: no metric computation divides by zero: extract_metrics (Mode A and
\* Mode B) and calculate_call_analytics raise no ZeroDivisionError, and every
\* percentage, words-per-minute and words-per-turn value is 0.0 when its
\* denominator (total speaking time, total words, minutes, turns) is zero.
C24_NoDivisionByZero ==
  /\ MetricsExtracted =>
        /\ ~fout.res.raised
        /\ LET timing == parse_vtt_with_speakers(fin.vtt_content, fin.coach_name)
               words == WordsOf(fin.transcript, "COACH") + WordsOf(fin.transcript, "CLIENT")
           IN IF fout.res.mode = "A"
                THEN /\ timing.coach_duration_sec + timing.client_duration_sec = 0 =>
                           fout.res.coach_speaking_pct = 0 /\ fout.res.client_speaking_pct = 0
                     /\ timing.coach_duration_sec = 0 => fout.res.coach_wpm = 0
                ELSE /\ words = 0 =>
                           /\ fout.res.coach_speaking_pct = 0
                           /\ fout.res.client_speaking_pct = 0
                           /\ fout.res.coach_speaking_time_min = 0
                           /\ fout.res.client_speaking_time_min = 0
                     /\ fout.res.coach_speaking_time_min = 0 => fout.res.coach_wpm = 0
  /\ AnalyticsCalculated =>
        /\ ~fout.res.raised
        /\ fout.res.total_words = 0 =>
              fout.res.coach_talk_ratio = 0 /\ fout.res.client_talk_ratio = 0
        /\ fout.res.coach_turns = 0 => fout.res.coach_avg_words_per_turn = 0
        /\ fout.res.client_turns = 0 => fout.res.client_avg_words_per_turn = 0
        /\ fout.res.total_duration_sec = 0 =>
              /\ fout.res.total_words_per_min = 0
              /\ fout.res.coach_words_per_min = 0
              /\ fout.res.client_words_per_min = 0

\* Mode B with a duration, the client has words and the coach has a turn but
\* no word: the coach's speaking time is zero and so are the words per minute
C24_Witness ==
  /\ MetricsExtracted
  /\ fout.res.mode = "B"
  /\ fin.vtt_content # None
  /\ WordsOf(fin.transcript, "COACH") = 0
  /\ WordsOf(fin.transcript, "CLIENT") > 0
  /\ \E k \in DOMAIN fin.transcript : SpeakerTag(fin.transcript[k]) = "COACH"
  /\ ~fout.res.raised
  /\ fout.res.coach_speaking_time_min = 0
  /\ fout.res.coach_wpm = 0
  /\ fout.res.client_speaking_pct = 1000

HasTag(line) == SpeakerTag(line) # ""

\* the speaker tags of the counted lines of a transcript, in order
TagsOf(transcript) ==
  LET counted == SelectSeq(transcript, HasTag)
  IN [k \in DOMAIN counted |-> SpeakerTag(counted[k])]

\* the maximal runs of one tag in a sequence of tags: the places where the tag
\* stands and the tag before it, if any, is another one
RunsOf(tags, tag) ==
  Cardinality({k \in DOMAIN tags : tags[k] = tag /\ (k = 1 \/ tags[k - 1] # tag)})

\* C25: total_turns of calculate_call_analytics is the number of maximal runs
\* of the same speaker tag over the counted lines of the transcript, and
\* coach_turns / client_turns are the runs tagged COACH / CLIENT.
C25_TurnsAreRuns ==
  AnalyticsCalculated =>
     LET tags == TagsOf(fin.transcript)
     IN /\ fout.res.coach_turns = RunsOf(tags, "COACH")
        /\ fout.res.client_turns = RunsOf(tags, "CLIENT")
        /\ fout.res.total_turns = RunsOf(tags, "COACH") + RunsOf(tags, "CLIENT")
        /\ fout.res.total_turns =
             Cardinality({k \in DOMAIN tags : k = 1 \/ tags[k] # tags[k - 1]})

\* four labelled lines, two of them in a row by the same speaker: three turns
C25_Witness ==
  /\ AnalyticsCalculated
  /\ Len(TagsOf(fin.transcript)) = 4
  /\ fout.res.coach_turns = 2
  /\ fout.res.client_turns = 1
  /\ fout.res.total_turns = 3

\* the outputs the case-check handler documents
DocumentedOutputs == {"caseData", "caseKey", "passRate", "hasVulnerability", "callAnalytics"}

\* C26 (as claimed): every successful return of the case-check handler, after
\* a fresh computation and after the reuse of a stored payload alike, carries
\* caseData, caseKey, passRate, hasVulnerability and callAnalytics.
C26_ReturnCarriesOutputs ==
  \A e \in Reqs : epc[e] = "returned" => DocumentedOutputs \subseteq eres[e].fields

\* metrics of the meeting are in the object store
MetricsSaved == \E m \in MetricsMonths : ms3[m] # None

\* C27 (as claimed): without forceReprocess, once metrics have been saved an
\* invocation of the extract-metrics step returns saved metrics and neither
\* fetches the transcript, nor recomputes, nor writes; with forceReprocess the
\* cache is not consulted and the metrics are recomputed from the inputs of
\* the invocation and saved again.  (Invocations whose cache probe met a
\* failing get_object are left aside.)
C27_MetricsCache ==
  LET ev == xevent[1] IN
  (xpc[1] # "none" /\ XEventValid(ev)) =>
     /\ (~ev.forceReprocess /\ ~xhist[1].getErr /\ xpc[1] \in {"extract", "save"}) =>
           ~MetricsSaved
     /\ (~ev.forceReprocess /\ xpc[1] = "returned" /\ xres[1].metricsKey = Cached) =>
           /\ ~xhist[1].fetched /\ ~xhist[1].wrote
           /\ \E m \in MetricsMonths : ms3[m] = Some(xres[1].callMetrics)
     /\ (ev.forceReprocess /\ xpc[1] = "returned") =>
           /\ xhist[1].fetched /\ xhist[1].wrote
           /\ xres[1].metricsKey \in MetricsMonths
           /\ ms3[xres[1].metricsKey] = Some(xres[1].callMetrics)
           /\ xres[1].callMetrics.coach = ev.coachName

\* the months counted from year 0
MonthIndex(partition) == partition[1] * 12 + (partition[2] - 1)

\* the partition of a month index
PartitionOf(index) == <<index \div 12, (index % 12) + 1>>

\* the three partitions to probe at a date: this month and the two before
ExpectedProbes(year, month) ==
  [k \in 1..3 |-> PartitionOf(MonthIndex(<<year, month>>) - (k - 1))]

ProbeDone == fin.fn = "load_metrics_from_s3" /\ fout.fn = "load_metrics_from_s3"

EndedWithout202(p) == ipc[p] = "done" /\ iresp[p].code # 202

PayloadInPlace(e) ==
  /\ ehist[e].wroteS3
  /\ eres[e].caseKey \in Months
  /\ s3[eres[e].caseKey] = Some(edata[e])

\* every result with an id has its per-check record in the table
AllChecksWritten(e, table) ==
  \A i \in DOMAIN edata[e].results :
     LET r == edata[e].results[i] IN
     r.id # "" =>
        \E j \in DOMAIN edata[e].results :
           /\ edata[e].results[j].id = r.id
           /\ table[r.id] = Some(CheckItem(edata[e].results[j]))

\* the step is a put of the overall record by execution e
PutsOverall(e) ==
  /\ epc[e] = "table"
  /\ \/ tbl'["#overall"] # tbl["#overall"]
     \/ epc'[e] = "returned" /\ ~ehist'[e].tblFailed

\* the step is a failing put of a per-check record by execution e
PerCheckPutFails(e) ==
  /\ epc[e] = "table"
  /\ eidx[e] <= Len(edata[e].results)
  /\ ehist'[e].tblFailed

\* C30: on a fresh computation the payload is in the object store before any
\* record is written to the assessment table; the overall record is written
\* only after every per-check record; a failing put of a per-check record
\* leaves the payload in the object store, writes no overall record and ends
\* the table step.
C30_WriteOrder ==
  [][/\ tbl' # tbl => \E e \in Reqs : epc[e] = "table" /\ PayloadInPlace(e)
     /\ \A e \in Reqs :
          /\ (epc[e] = "table" /\ (epc'[e] = "table" \/ epc'[e] = "returned")) =>
                PayloadInPlace(e) /\ s3' = s3
          /\ PutsOverall(e) =>
                eidx[e] > Len(edata[e].results) /\ AllChecksWritten(e, tbl)
          /\ PerCheckPutFails(e) =>
                /\ s3' = s3
                /\ tbl' = tbl
                /\ epc'[e] = "returned"]_vars

\* the put of the second per-check record failed: the payload and the first
\* record are stored, there is no overall record
C30_Witness ==
  \E e \in Reqs :
     /\ epc[e] = "returned"
     /\ ehist[e].tblFailed
     /\ ehist[e].wroteTbl
     /\ PayloadInPlace(e)
     /\ eidx[e] = 2
     /\ Len(edata[e].results) >= 2
     /\ tbl[edata[e].results[1].id] # None
     /\ tbl["#overall"] = None

\* execution e returned after a fresh computation whose table step succeeded
FreshAndRecorded(e) ==
  /\ epc[e] = "returned"
  /\ ehist[e].wroteS3
  /\ ehist[e].wroteTbl
  /\ ~ehist[e].tblFailed
  /\ eres[e].caseKey \in Months
  /\ s3[eres[e].caseKey] # None
  /\ tbl["#overall"] # None

\* C31: the overall triage record agrees with the persisted payload: its
\* failed_ids and failed_question_count are the payload's overall.failed_ids
\* and their number, and its triage_outcome is Pass exactly when
\* overall.failed_ids is empty.
C31_TriageAgreesWithPayload ==
  \A e \in Reqs :
     FreshAndRecorded(e) =>
        LET item == tbl["#overall"][1]
            overall == s3[eres[e].caseKey][1].overall
        IN /\ item.failed_ids = overall.failed_ids
           /\ item.failed_question_count = Len(overall.failed_ids)
           /\ (item.triage_outcome = "Pass") <=> (overall.failed_ids = <<>>)

\* C32: in every persisted payload has_high_severity_failures is true exactly
\* when high_severity_flags is non-empty, and every id of high_severity_flags
\* is among failed_ids.
C32_HighSeverityConsistent ==
  \A m \in Months :
     s3[m] # None =>
        LET overall == s3[m][1].overall
        IN /\ overall.has_high_severity_failures <=> (overall.high_severity_flags # <<>>)
           /\ Range(overall.high_severity_flags) \subseteq Range(overall.failed_ids)

\* the i-th result of the repair had its span set by the search of its quote
SpanBySearch(i) ==
  /\ fin.fn = "repair" /\ fout.fn = "repair"
  /\ i \in DOMAIN fout.results
  /\ fout.results[i].finds # <<>>
  /\ fout.results[i].evidence_spans # <<>>

\* C33: every span produced by searching lies inside the transcript,
\* 0 <= start <= end <= len(transcript), and on an exact match the transcript
\* between start and end is the stripped quote.
C33_SearchedSpanInside ==
  (fin.fn = "repair" /\ fout.fn = "repair") =>
     \A i \in DOMAIN fout.results :
        SpanBySearch(i) =>
           LET span == fout.results[i].evidence_spans[1]
               clean_quote == Strip(fin.results[i].evidence_quote[1])
           IN /\ 0 <= span[1]
              /\ span[1] <= span[2]
              /\ span[2] <= Len(fin.full_transcript)
              /\ Len(fout.results[i].finds) = 1 =>
                    SubSeq(fin.full_transcript, span[1] + 1, span[2]) = clean_quote

\* C34: the turn counts of calculate_call_analytics alternate: coach_turns and
\* client_turns differ by at most 1, total_turns is their sum, and a speaker
\* with zero turns has zero words.
C34_TurnsAlternate ==
  AnalyticsCalculated =>
     /\ fout.res.coach_turns - fout.res.client_turns \in {-1, 0, 1}
     /\ fout.res.total_turns = fout.res.coach_turns + fout.res.client_turns
     /\ fout.res.coach_turns = 0 => fout.res.coach_words = 0
     /\ fout.res.client_turns = 0 => fout.res.client_words = 0

\* CLIENT, COACH, COACH, CLIENT: two turns of the client around one of the
\* coach, who spoke in two lines
C34_Witness ==
  /\ AnalyticsCalculated
  /\ TagsOf(fin.transcript) = <<"CLIENT", "COACH", "COACH", "CLIENT">>
  /\ fout.res.coach_turns = 1
  /\ fout.res.client_turns = 2
  /\ fout.res.coach_words > 0

\* the sum of f(k) over the indices k of a set
RECURSIVE SumOfSet(_, _)
SumOfSet(f, indices) ==
  IF indices = {} THEN 0
  ELSE LET k == CHOOSE x \in indices : TRUE IN f[k] + SumOfSet(f, indices \ {k})

\* C35: speaker attribution conserves totals: for a non-empty coach name the
\* two durations sum to the sum of end_sec - start_sec over all parsed
\* segments, and each segment's duration and words are added to exactly one of
\* the two speakers (the segments split into those of the coach and those of
\* the client, and each output is the sum over its side).
C35_AttributionConserves ==
  (SpeakersParsed /\ fin.coach_name # None /\ fin.coach_name[1] # <<>>
     /\ fin.vtt_content # None /\ fin.vtt_content[1] # <<>>) =>
     LET segments == parse_vtt_segments(fin.vtt_content).segments
         duration == [k \in DOMAIN segments |-> segments[k].end_sec - segments[k].start_sec]
         words == [k \in DOMAIN segments |-> SegmentWords(segments[k].text)]
     IN /\ fout.res.coach_duration_sec + fout.res.client_duration_sec =
              SumOfSet(duration, DOMAIN segments)
        /\ \E coach \in SUBSET DOMAIN segments :
              LET client == DOMAIN segments \ coach
              IN /\ fout.res.coach_duration_sec = SumOfSet(duration, coach)
                 /\ fout.res.client_duration_sec = SumOfSet(duration, client)
                 /\ fout.res.coach_words = SumOfSet(words, coach)
                 /\ fout.res.client_words = SumOfSet(words, client)

\* two segments, one without speaker prefix and one said by the coach: each
\* side has time and words, and the times sum to the total
C35_Witness ==
  /\ SpeakersParsed
  /\ fin.coach_name # None /\ fin.coach_name[1] # <<>>
  /\ fin.vtt_content # None
  /\ LET segments == parse_vtt_segments(fin.vtt_content).segments
     IN /\ Len(segments) = 2
        /\ \E k \in DOMAIN segments : ~HasNameShape(segments[k].text)
  /\ fout.res.coach_duration_sec > 0 /\ fout.res.coach_words > 0
  /\ fout.res.client_duration_sec > 0 /\ fout.res.client_words > 0


\* ---- ZoomClient.find_meeting
\* the last call was a find_meeting that returned a result
MeetingReturned == zlog.fn = "find_meeting" /\ zlog.ret # None
ReturnedMeeting == zlog.ret[1]
\* the parsed call_datetime of the last call and the recordings of its date
CallDt == zlog.args.call_datetime
RecordingsOfCall ==
  IF DateStr(CallDt.day) \in DOMAIN zoom.recordings_cache
  THEN zoom.recordings_cache[DateStr(CallDt.day)] ELSE <<>>
\* the email the mapping knows for the coach of the last call
KnownCoachEmail ==
  IF zlog.args.coach_name = None THEN None
  ELSE coach_email_of(zoom, zlog.args.coach_name[1])
\* the recordings of the call's date that start within the call's window
InWindowOfCall ==
  {i \in DOMAIN RecordingsOfCall :
     /\ Parses(RecordingsOfCall[i])
     /\ Comparable(RecordingsOfCall[i], CallDt)
     /\ WithinWindow(RecordingsOfCall[i], CallDt, zlog.args.time_window_hours)}
CoachHosted ==
  {i \in InWindowOfCall :
     KnownCoachEmail # None /\ HostedBy(RecordingsOfCall[i], KnownCoachEmail[1])}
ClientNamed ==
  {i \in InWindowOfCall : ClientInTopic(RecordingsOfCall[i], zlog.args.client_identifier)}

IdGoesWithMatchType ==
  MeetingReturned =>
    /\ ReturnedMeeting.meeting_id # None
         <=> ReturnedMeeting.match_type \in {"adviser+client", "adviser+time", "client_topic"}
    /\ ReturnedMeeting.meeting_id = None
         <=> ReturnedMeeting.match_type \in {"adviser_not_found", "no_recording", "invalid_date"}
CoachHostPreferred ==
  (MeetingReturned /\ CallDt.kind = "iso" /\ CoachHosted # {}) =>
    ReturnedMeeting.match_type \in {"adviser+client", "adviser+time"}
AdviserNotFoundOnlyUnknown ==
  (MeetingReturned /\ ReturnedMeeting.match_type = "adviser_not_found") =>
    /\ zlog.args.coach_name # None
    /\ KnownCoachEmail = None
    /\ CoachHosted = {} /\ ClientNamed = {}

\* C36: find_meeting returns a meeting id exactly with adviser+client,
\* adviser+time and client_topic and no id exactly with adviser_not_found,
\* no_recording and invalid_date; a recording hosted by the coach within the
\* window wins over one that names the client; adviser_not_found comes only
\* with a coach name that has no known email and no matching recording
C36_MatchTypes ==
  IdGoesWithMatchType /\ CoachHostPreferred /\ AdviserNotFoundOnlyUnknown


\* the recording a returned meeting id stands for
RecordingWithId(meeting_id) == CHOOSE m \in AllRecordings : IdStr(m.id) = meeting_id

\* C37: every meeting a find_meeting call returns, computed or taken from
\* the meeting cache, starts within time_window_hours of the call_datetime
\* of that call
C37_ReturnedWithinWindow ==
  (MeetingReturned /\ ReturnedMeeting.meeting_id # None) =>
    LET m == RecordingWithId(ReturnedMeeting.meeting_id[1])
    IN /\ Parses(m)
       /\ Comparable(m, CallDt)
       /\ WithinWindow(m, CallDt, zlog.args.time_window_hours)


\* ---- ZoomClient caches
\* the step is a call of get_recordings_for_date that returned
RecordingsCall == zlog'.fn = "get_recordings_for_date" /\ zlog'.raised = "none"
\* a date that is cached is answered with the cached list, without a request
\* and without a change of the cache
AnsweredFromCache ==
  LET date_str == zlog'.args.date_str
  IN (RecordingsCall /\ date_str \in DOMAIN zoom.recordings_cache) =>
       /\ zlog'.ret = Some(zoom.recordings_cache[date_str])
       /\ zlog'.requests = 0
       /\ zoom'.recordings_cache = zoom.recordings_cache
\* a date that is not cached costs one request, and the list returned (the
\* empty one after a failure) is what the cache holds for the date afterwards
FetchedAndCached ==
  LET date_str == zlog'.args.date_str
  IN (RecordingsCall /\ date_str \notin DOMAIN zoom.recordings_cache) =>
       /\ zlog'.requests = 1
       /\ zoom'.recordings_cache = DictSet(zoom.recordings_cache, date_str, zlog'.ret[1])
\* no call but clear_cache drops or changes a cached list
CachedUntilCleared ==
  zlog'.fn # "clear_cache" =>
    \A d \in DOMAIN zoom.recordings_cache :
      d \in DOMAIN zoom'.recordings_cache /\ zoom'.recordings_cache[d] = zoom.recordings_cache[d]
\* clear_cache empties the two caches and keeps the mapping and the token
ClearedOnly ==
  zlog'.fn = "clear_cache" =>
    /\ DOMAIN zoom'.recordings_cache = {}
    /\ DOMAIN zoom'.meeting_cache = {}
    /\ zoom'.coach_emails = zoom.coach_emails
    /\ zoom'.access_token = zoom.access_token

====
